---- MODULE Spec2Model ----
(***************************************************************************)
(* Model of the Word-to-PDF conversion and renaming pipeline of            *)
(* ESF_renamer: word_to_pdf.py (the full pipeline), docx2pdf_converter.py  *)
(* (conversion only) and PID_RENAME.py.                                    *)
(*                                                                         *)
(* A path is a sequence of strings: its head is the directory (relative to *)
(* the output root), the rest are the segments of the file name that the   *)
(* character '_' separates; the extension ".pdf" is implicit.  So          *)
(* <<".", "P111111", "NON", "01">> is ./P111111_NON_01.pdf.                *)
(***************************************************************************)
EXTENDS Integers, Sequences, FiniteSets, TLC

VARIABLES
  inputs,           \* the files found under the input directory, in os.walk order
  country_mapping,  \* project identifier -> country (a sequence of words)
  variant,          \* which script runs: "word_to_pdf" or "docx2pdf_converter"
  cpu_count,        \* os.cpu_count(); 0 stands for None
  fs,               \* the output tree: path -> the input whose content it holds
  mpc,              \* position of the main thread
  batch_start,      \* the loop variable i of the batch loop (0-based)
  successful,       \* the run's counters, as the main thread holds them
  failed,
  reported,         \* what the final report printed: <<successful, failed>>
  task,             \* per convertible document: the state of its process_file call
  doneq,            \* completed futures not yet seen by as_completed
  copy_next,        \* copy_existing_pdfs: index of the next PDF to copy
  wrote_over,       \* history: <<old, new>> for every write onto an existing path
  prekills,         \* history: per pre-batch taskkill, the number of its batch
  uq,               \* harness of the get_unique_filename calls
  platform,         \* platform.system()
  input_valid,      \* os.path.isdir(input_dir)
  entry,            \* how the code is entered: the script ("main"), the script
                    \* with --input and --output ("flags"), or a caller's
                    \* process_batch(batch, ...) ("process_batch")
  exit_status,      \* <<>> while the script runs, <<n>> once it exited with n
  dirs,             \* the directories of the output tree
  temp,             \* the files of tempfile.gettempdir()
  rc,               \* apply_country_mapping_to_existing_files: its locals and
                    \* the history of its passes
  spreadsheet,      \* the country spreadsheet the user names: how it reads
                    \* and the mapping its rows hold
  batches,          \* history: the batch of every process_batch call
  call,             \* harness of the calls of the pure functions
  output_dir,       \* the output directory the user names: a directory of
                    \* its own ("separate") or the input directory ("input")
  found             \* copy_existing_pdfs: the PDFs its walk of the input
                    \* directory finds besides those of inputs

vars == <<inputs, country_mapping, variant, cpu_count, fs, mpc, batch_start,
          successful, failed, reported, task, doneq, copy_next, found, wrote_over,
          prekills, uq, platform, input_valid, output_dir, entry, exit_status, dirs,
          temp, rc, spreadsheet, batches, call>>

(***************************************************************************)
(* Bounds of the model.                                                    *)
(***************************************************************************)
\* get_unique_filename is exercised on directories holding the desired name
\* and up to MaxOccupied consecutive disambiguated names.
MaxOccupied == 100
\* get_optimal_batch_size returns 10, 20, 50 or 100; the model runs the batch
\* loop with a batch size scaled down to BatchSize.
BatchSize == 3

(***************************************************************************)
(* Program constants.                                                      *)
(***************************************************************************)
\* docx2pdf_converter's --max-retries default, which process_file ignores.
max_retries_default == 3

\* process_file calls convert_with_word(input_path, output_path, retries=2).
retries == 2

(***************************************************************************)
(* The unique naming routine.                                              *)
(***************************************************************************)
\* The Python format specification {counter:02d}: decimal, padded with
\* zeros on the left to a minimum width of two.
Fmt02Unpadded(counter) == ToString(counter)

Fmt02(counter) ==
  IF counter < 10 THEN "0" \o ToString(counter) ELSE ToString(counter)

\* f"{name}_{counter:02d}{ext}" joined to the directory of base_path.
Suffixed(base_path, counter) == Append(base_path, Fmt02(counter))

\* The while-True loop of get_unique_filename, entered with counter = 1.
RECURSIVE FirstFreeFrom(_, _, _)
FirstFreeFrom(ex, base_path, counter) ==
  IF Suffixed(base_path, counter) \notin ex
    THEN Suffixed(base_path, counter)
    ELSE FirstFreeFrom(ex, base_path, counter + 1)

get_unique_filename_FromZero(ex, base_path) ==
  IF base_path \notin ex THEN base_path
  ELSE Suffixed(base_path, 1)

\* ex is the set of paths for which os.path.exists is true.
get_unique_filename(ex, base_path) ==
  IF base_path \notin ex THEN base_path
  ELSE FirstFreeFrom(ex, base_path, 1)

(***************************************************************************)
(* Input files, discovery and the output tree.                             *)
(***************************************************************************)
\* An input file.  dir: its directory relative to the input directory;
\* stem: the '_'-separated segments of its name; ext: its extension;
\* cpid: the identifier in its text ("" if none); lang: the language tag of
\* its text; conv: whether Word can convert it ("ok"), fails on it ("fail"),
\* fails to open it where it is and converts a local copy ("copy"), or
\* does not answer while it has the document open ("hang");
\* pdf: what PyPDF2 gets from the PDF of the file: its text ("text"), pages
\* without a text layer ("scanned"), or an exception ("unreadable").
InputFile(dir, stem, ext, cpid, lang, conv) ==
  [dir |-> dir, stem |-> stem, ext |-> ext, cpid |-> cpid, lang |-> lang,
   conv |-> conv, pdf |-> "text"]

WithPdf(file, kind) == [file EXCEPT !.pdf = kind]

Pids == {"P111111", "P654321"}

NoPath == <<>>

\* lower_file.endswith('.docx') or lower_file.endswith('.doc') in
\* word_to_pdf; file.lower().endswith('.docx') in docx2pdf_converter.
IsConvertible(v, f) ==
  IF v = "word_to_pdf" THEN f.ext \in {"doc", "docx"} ELSE f.ext = "docx"

IsPdf(f) == f.ext = "pdf"

word_files == SelectSeq(inputs, LAMBDA f : IsConvertible(variant, f))

pdf_files == SelectSeq(inputs, LAMBDA f : IsPdf(f))

NWord == Len(word_files)

\* The content of an output file is named by the input it came from:
\* 1..NWord are the converted documents, NWord + k is the k-th copied PDF,
\* 0 is a file that was in the output tree before the run.
Content(c) ==
  IF c = 0 THEN InputFile(".", <<>>, "pdf", "", "NON", "ok")
  ELSE IF c <= NWord THEN word_files[c]
  ELSE pdf_files[c - NWord]

existing == DOMAIN fs

\* A write of content c at path p (Word's SaveAs, shutil.copy2): the file at
\* p is created or replaced.
WriteFile(f, p, c) == [q \in (DOMAIN f) \cup {p} |-> IF q = p THEN c ELSE f[q]]

\* os.rename on Windows: it raises when the source is missing or when the
\* destination exists; renaming a file to its own name changes nothing.
RenameOk(f, src, dst) == src \in DOMAIN f /\ (dst \notin DOMAIN f \/ dst = src)

Rename(f, src, dst) ==
  [q \in ((DOMAIN f) \ {src}) \cup {dst} |-> IF q = dst THEN f[src] ELSE f[q]]

\* The history of writes onto existing paths.
Clobber(f, p, c) == IF p \in DOMAIN f THEN {<<f[p], c>>} ELSE {}

(***************************************************************************)
(* Identifier, language and country.                                       *)
(***************************************************************************)
\* extract_project_id on the file at pdf_path: the identifier in its text;
\* None ("") when the text has none or the file cannot be opened.
\* The identifier that extract_project_id finds in the PDF of a file:
\* PdfReader raises on an unreadable file and the except clause returns
\* None; extract_text() of a page without text layer has no match.
TextId(file) == IF file.pdf = "text" THEN file.cpid ELSE ""

extract_project_id_Unchecked(f, pdf_path) ==
  IF pdf_path \in DOMAIN f THEN Content(f[pdf_path]).cpid ELSE ""

extract_project_id(f, pdf_path) ==
  IF pdf_path \in DOMAIN f THEN TextId(Content(f[pdf_path])) ELSE ""

\* extract_project_id_from_filename: the first P###### of the name that a
\* separator follows, so never the last segment of the stem.
RECURSIVE FirstPidSegment(_, _)
FirstPidSegment(stem, k) ==
  IF k >= Len(stem) THEN ""
  ELSE IF stem[k] \in Pids THEN stem[k]
  ELSE FirstPidSegment(stem, k + 1)

extract_project_id_from_filename(file) == FirstPidSegment(file.stem, 1)

\* detect_language on the file at pdf_path; "NON" when it cannot be read.
detect_language(f, pdf_path) ==
  IF pdf_path \in DOMAIN f /\ Content(f[pdf_path]).pdf = "text"
    THEN Content(f[pdf_path]).lang ELSE "NON"

\* The empty mapping, {}; None is not told apart from it ("if
\* country_mapping:" is false for both).
NoMapping == [p \in {} |-> <<>>]

\* load_project_country_mapping(spreadsheet_path): the mapping of the rows
\* when the file reads and both columns are found; {} when the extension
\* is not .xlsx, .xls or .csv ("unsupported"), when pandas raises on the
\* file ("malformed"), when a column number is out of range, which raises
\* IndexError ("bad_index"), and when a column name is not in df.columns
\* ("bad_column").
load_project_country_mapping_Trusting(sheet) == sheet.mapping

load_project_country_mapping(sheet) ==
  IF sheet.reads = "ok" THEN sheet.mapping ELSE NoMapping

\* "Prompt for country spreadsheet if not provided": the mapping of
\* convert_folder_to_pdf after the prompt.  The user declines ("none"), or
\* names a path that does not exist ("not_found"), or the file is loaded.
PromptedMapping(sheet) ==
  IF sheet.reads = "none" THEN NoMapping
  ELSE IF sheet.reads = "not_found" THEN NoMapping
  ELSE load_project_country_mapping(sheet)

\* country_mapping[project_id].replace(" ", "_"): the words of the country
\* become segments of the name; <<>> when there is no entry.
CountryOf(project_id) ==
  IF project_id \in DOMAIN country_mapping
    THEN country_mapping[project_id] ELSE <<>>

\* f"{project_id}_{country}_{language_suffix}.pdf", or without the country.
FinalName(target_dir, project_id, country, language_suffix) ==
  <<target_dir, project_id>> \o country \o <<language_suffix>>

(***************************************************************************)
(* The collision loops that process_file and copy_existing_pdfs inline.    *)
(***************************************************************************)
RECURSIVE BaseLoop(_, _, _)
BaseLoop(ex, base, counter) ==
  LET temp_path == Append(base, Fmt02(counter))
  IN  IF temp_path \notin ex THEN temp_path
      ELSE BaseLoop(ex, base, counter + 1)

\* "Handle duplicate filenames for base project ID".
BasePidPath(ex, target_dir, project_id) ==
  IF <<target_dir, project_id>> \in ex
    THEN BaseLoop(ex, <<target_dir, project_id>>, 1)
    ELSE <<target_dir, project_id>>

RECURSIVE FinalLoop(_, _, _, _)
FinalLoop(ex, pid_path, pdf_path, counter) ==
  LET temp_path == Append(pid_path, Fmt02(counter))
  IN  IF temp_path \notin ex \/ temp_path = pdf_path THEN temp_path
      ELSE FinalLoop(ex, pid_path, pdf_path, counter + 1)

\* "Handle duplicate filenames for the final name".
FinalPidPath(ex, pid_path, pdf_path) ==
  IF pid_path \in ex /\ pid_path # pdf_path
    THEN FinalLoop(ex, pid_path, pdf_path, 1)
    ELSE pid_path

(***************************************************************************)
(* One conversion task: process_file, run by a worker of the pool.         *)
(***************************************************************************)
Tasks == 1..NWord

\* get_optimal_workers (word_to_pdf) and the --workers default
\* (docx2pdf_converter).
Min(a, b) == IF a < b THEN a ELSE b

Max(a, b) == IF a > b THEN a ELSE b

get_optimal_workers(cpu) ==
  Max(2, Min(4, (IF cpu = 0 THEN 4 ELSE cpu) \div 2))

max_workers ==
  IF variant = "word_to_pdf" THEN get_optimal_workers(cpu_count)
  ELSE Min(cpu_count, 4)

IdleTask ==
  [pc |-> "unsubmitted", attempt |-> 0, killed |-> FALSE,
   output_path |-> NoPath, pdf_path |-> NoPath, project_id |-> "",
   language_suffix |-> "", pid_path |-> NoPath,
   success |-> "none", error |-> "", result_pid |-> "", ev |-> <<>>,
   word |-> FALSE, com_init |-> 0, com_uninit |-> 0]

Running(i) == task[i].pc \notin {"unsubmitted", "queued", "done", "collected"}

NumRunning == Cardinality({i \in Tasks : Running(i)})

\* target_dir of process_file: the output directory joined with the input's
\* relative directory in word_to_pdf, the output directory itself in
\* docx2pdf_converter.
TargetDir(i) == IF variant = "word_to_pdf" THEN word_files[i].dir ELSE "."

\* output_path of process_file, with word_to_pdf's existence probe.
OutputPath(i) ==
  LET output_path == <<TargetDir(i)>> \o word_files[i].stem
  IN  IF variant = "word_to_pdf" /\ output_path \in existing
        THEN get_unique_filename(existing, output_path)
        ELSE output_path

\* The task returns: the future completes.
Return(i, success, pid, t) ==
  /\ task' = [task EXCEPT ![i] = [t EXCEPT !.pc = "done",
                                           !.success = success,
                                           !.result_pid = pid]]
  /\ doneq' = Append(doneq, i)

Log(t, e) == [t EXCEPT !.ev = Append(@, e)]

\* "except Exception as e: return (file_path, False, str(e), None)" at the
\* end of process_file.
ExceptClause(t, e) == [t EXCEPT !.success = "fail", !.error = e]

\* An exception with message e reaches the except clause of process_file.
Raise(i, e, t) ==
  Return(i, ExceptClause(t, e).success, "", ExceptClause(t, e))

\* pythoncom.CoInitialize() at the top of convert_with_word.
CoInitialize(t) == [t EXCEPT !.com_init = @ + 1]

\* word = win32com.client.DispatchEx("Word.Application").
DispatchEx(t) == [t EXCEPT !.word = TRUE]

\* The finally clause of an attempt: word.Quit() and
\* pythoncom.CoUninitialize().
Finally(t) == [t EXCEPT !.word = FALSE, !.com_uninit = @ + 1]

\* "OneDrive" in input_file.
InOneDrive(file) == file.dir = "OneDrive"

\* os.path.join(temp_dir, f"temp_{os.path.basename(input_file)}").
TempFile(file) == <<file.stem, file.ext>>

\* os.makedirs(target_dir, exist_ok=True) of word_to_pdf's process_file,
\* which runs when the input is in a subdirectory.
MakeTargetDir(d, i) ==
  IF variant = "word_to_pdf" /\ TargetDir(i) # "." THEN d \cup {TargetDir(i)}
  ELSE d

\* A worker takes the next queued task (the pool's queue is first-in
\* first-out) and runs process_file up to the call of convert_with_word:
\* the target directory, the output path, the platform check.
StartTask(i) ==
  /\ mpc = "collect"
  /\ task[i].pc = "queued"
  /\ \A j \in Tasks : j < i => task[j].pc # "queued"
  /\ NumRunning < max_workers
  /\ dirs' = MakeTargetDir(dirs, i)
  /\ IF platform # "Windows"
       THEN Raise(i, "Microsoft Word conversion requires Windows",
                  [task[i] EXCEPT !.output_path = OutputPath(i)])
       ELSE /\ task' = [task EXCEPT ![i] =
                          CoInitialize([@ EXCEPT !.pc = "attempt",
                                                 !.output_path = OutputPath(i)])]
            /\ UNCHANGED doneq
  /\ UNCHANGED <<inputs, country_mapping, variant, cpu_count, platform,
                 input_valid, output_dir, entry, fs, mpc,
                 batch_start, successful, failed, reported, copy_next, found,
                 wrote_over, prekills, batches, uq, spreadsheet, call, exit_status, temp, rc>>

\* Top of the body of "for attempt in range(retries + 1)": a Word instance
\* is launched and the document is being converted.
BeginAttempt(i) ==
  /\ task[i].pc = "attempt"
  /\ task' = [task EXCEPT ![i] =
                 Log(DispatchEx([@ EXCEPT !.pc = "converting",
                                          !.killed = FALSE]),
                     "attempt")]
  /\ UNCHANGED <<inputs, country_mapping, variant, cpu_count, platform,
                 input_valid, output_dir, entry, fs, mpc,
                 batch_start, successful, failed, reported, doneq, copy_next, found,
                 wrote_over, prekills, batches, uq, spreadsheet, call, exit_status, dirs, temp, rc>>

\* "if attempt < retries" in the except clause.
RetryAllowed_Always(attempt) == attempt <= retries

RetryAllowed(attempt) == attempt < retries

\* What follows a successful conversion in process_file.
AfterConversion == IF variant = "word_to_pdf" THEN "extract" ELSE "return"

\* Word writes the PDF at output_path: doc.SaveAs (ExportAsFixedFormat in
\* the first method for an input in OneDrive).  The attempt has still to
\* close the document, so it can fail after the file is there.  A document
\* that Word converts only from a local copy is not written by the first
\* method.
SaveAs(i) ==
  LET t == task[i] IN
  /\ t.pc \in {"converting", "fallback"}
  /\ ~t.killed
  /\ t.pc = "converting" => word_files[i].conv # "copy"
  /\ word_files[i].conv # "hang"
  /\ fs' = WriteFile(fs, t.output_path, i)
  /\ wrote_over' = wrote_over \cup Clobber(fs, t.output_path, i)
  /\ task' = [task EXCEPT ![i].pc =
                 IF t.pc = "converting" THEN "closing" ELSE "fallback_closing"]
  /\ UNCHANGED <<inputs, country_mapping, variant, cpu_count, platform,
                 input_valid, output_dir, entry, mpc,
                 batch_start, successful, failed, reported, doneq, copy_next, found,
                 prekills, batches, uq, spreadsheet, call, exit_status, dirs, temp, rc>>

\* convert_with_word returns output_file, through the finally clause.
Converted(i, t) ==
  IF AfterConversion = "extract"
    THEN /\ task' = [task EXCEPT ![i] =
                       Log(Finally([t EXCEPT !.pc = "extract",
                                             !.pdf_path = t.output_path]),
                           "ok")]
         /\ UNCHANGED doneq
    ELSE Return(i, "ok", "", Log(Finally(t), "ok"))

\* The attempt succeeds: Word can convert the document and its process was
\* not killed before doc.Close returned.
EndAttemptOk(i) ==
  LET t == task[i] IN
  /\ t.pc = "closing"
  /\ ~t.killed /\ word_files[i].conv = "ok"
  /\ Converted(i, t)
  /\ UNCHANGED <<inputs, country_mapping, variant, cpu_count, platform,
                 input_valid, output_dir, entry, fs, mpc,
                 batch_start, successful, failed, reported, copy_next, found,
                 wrote_over, prekills, batches, uq, spreadsheet, call, exit_status, dirs, temp, rc>>

\* The first method raised on an input in OneDrive: the inner except
\* clause copies the input to the temporary directory (shutil.copy2) and
\* opens the copy.
FallBack(i) ==
  LET t == task[i] IN
  /\ t.pc \in {"converting", "closing"}
  /\ InOneDrive(word_files[i])
  /\ t.killed \/ word_files[i].conv # "ok"
  /\ temp' = temp \cup {TempFile(word_files[i])}
  /\ task' = [task EXCEPT ![i] = Log([t EXCEPT !.pc = "fallback"], "tempcopy")]
  /\ UNCHANGED <<inputs, country_mapping, variant, cpu_count, platform,
                 input_valid, output_dir, entry, fs, mpc,
                 batch_start, successful, failed, reported, doneq, copy_next, found,
                 wrote_over, prekills, batches, uq, spreadsheet, call, exit_status, dirs, rc>>

\* The second method succeeds: doc.Close() returned after SaveAs from the
\* copy, then os.remove(temp_file).
EndFallBackOk(i) ==
  LET t == task[i] IN
  /\ t.pc = "fallback_closing"
  /\ ~t.killed /\ word_files[i].conv # "fail"
  /\ temp' = temp \ {TempFile(word_files[i])}
  /\ Converted(i, Log(t, "remove"))
  /\ UNCHANGED <<inputs, country_mapping, variant, cpu_count, platform,
                 input_valid, output_dir, entry, fs, mpc,
                 batch_start, successful, failed, reported, copy_next, found,
                 wrote_over, prekills, batches, uq, spreadsheet, call, exit_status, dirs, rc>>

\* The attempt fails: Word raised (in Open, SaveAs or Close) or its process
\* was killed; for an input in OneDrive the second method raised ("Both
\* OneDrive methods failed").  The except clause of the attempt runs.
EndAttemptFail(i) ==
  LET t == task[i] IN
  /\ \/ t.pc \in {"converting", "closing"} /\ ~InOneDrive(word_files[i])
     \/ t.pc \in {"fallback", "fallback_closing"}
  /\ t.killed \/ word_files[i].conv = "fail"
  /\ IF RetryAllowed(t.attempt)
       THEN /\ task' = [task EXCEPT ![i] = Log([t EXCEPT !.pc = "backoff"],
                                               "fail")]
            /\ UNCHANGED doneq
       ELSE Raise(i, "MS Word conversion failed after 3 attempts",
                  Log(Finally(t), "fail"))
  /\ UNCHANGED <<inputs, country_mapping, variant, cpu_count, platform,
                 input_valid, output_dir, entry, fs, mpc,
                 batch_start, successful, failed, reported, copy_next, found,
                 wrote_over, prekills, batches, uq, spreadsheet, call, exit_status, dirs, temp, rc>>

\* time.sleep(3).
Backoff(i) ==
  /\ task[i].pc = "backoff"
  /\ task' = [task EXCEPT ![i] = Log([@ EXCEPT !.pc = "kill"], "sleep3")]
  /\ UNCHANGED <<inputs, country_mapping, variant, cpu_count, platform,
                 input_valid, output_dir, entry, fs, mpc,
                 batch_start, successful, failed, reported, doneq, copy_next, found,
                 wrote_over, prekills, batches, uq, spreadsheet, call, exit_status, dirs, temp, rc>>

\* taskkill /f /im WINWORD.EXE: every Word process of the machine dies, so
\* every conversion that is under way fails.
KillAllWord(tk) ==
  [j \in DOMAIN tk |->
     IF tk[j].pc \in {"converting", "closing", "fallback", "fallback_closing"}
       THEN [tk[j] EXCEPT !.killed = TRUE]
     ELSE tk[j]]

KillWord(i) ==
  /\ task[i].pc = "kill"
  /\ task' = [KillAllWord(task) EXCEPT ![i] =
                 Log([@ EXCEPT !.pc = "wait"], "taskkill")]
  /\ UNCHANGED <<inputs, country_mapping, variant, cpu_count, platform,
                 input_valid, output_dir, entry, fs, mpc,
                 batch_start, successful, failed, reported, doneq, copy_next, found,
                 wrote_over, prekills, batches, uq, spreadsheet, call, exit_status, dirs, temp, rc>>

\* range(retries + 1): is there a next value of attempt.
HasNextAttempt(attempt) == attempt + 1 < retries + 1

\* time.sleep(2), the finally clause, and the next iteration of the loop;
\* "raise Exception('Unknown error in Word conversion')" after the loop.
Wait(i) ==
  LET t == task[i] IN
  /\ t.pc = "wait"
  /\ IF HasNextAttempt(t.attempt)
       THEN /\ task' = [task EXCEPT ![i] =
                          Log(Finally([t EXCEPT !.pc = "attempt",
                                                !.attempt = t.attempt + 1]),
                              "sleep2")]
            /\ UNCHANGED doneq
       ELSE Raise(i, "Unknown error in Word conversion",
                  Log(Finally(t), "sleep2"))
  /\ UNCHANGED <<inputs, country_mapping, variant, cpu_count, platform,
                 input_valid, output_dir, entry, fs, mpc,
                 batch_start, successful, failed, reported, copy_next, found,
                 wrote_over, prekills, batches, uq, spreadsheet, call, exit_status, dirs, temp, rc>>

(***************************************************************************)
(* process_file after the conversion: identifier, renames.                 *)
(***************************************************************************)
TaskUnchanged ==
  UNCHANGED <<inputs, country_mapping, variant, cpu_count, platform,
                 input_valid, output_dir, entry, mpc, batch_start,
              successful, failed, reported, copy_next, found, prekills, batches, uq, spreadsheet, call, exit_status, dirs, temp, rc>>

\* extract_project_id(pdf_path), then the file name when the text has none.
ProjectIdOf(f, pdf_path, file) ==
  IF extract_project_id(f, pdf_path) # ""
    THEN extract_project_id(f, pdf_path)
    ELSE extract_project_id_from_filename(file)

Extract(i) ==
  LET t == task[i]
      project_id == ProjectIdOf(fs, t.pdf_path, word_files[i])
  IN
  /\ t.pc = "extract"
  /\ IF project_id # ""
       THEN /\ task' = [task EXCEPT ![i] = [t EXCEPT !.pc = "baseprobe",
                                                     !.project_id = project_id]]
            /\ UNCHANGED doneq
       ELSE Return(i, "ok", "", t)
  /\ UNCHANGED <<fs, wrote_over>>
  /\ TaskUnchanged

\* The existence probes that choose base_pid_path.
BaseProbe(i) ==
  LET t == task[i] IN
  /\ t.pc = "baseprobe"
  /\ task' = [task EXCEPT ![i] =
                 [t EXCEPT !.pc = "baserename",
                           !.pid_path = BasePidPath(existing, TargetDir(i),
                                                    t.project_id)]]
  /\ UNCHANGED <<fs, wrote_over, doneq>>
  /\ TaskUnchanged

\* os.rename(pdf_path, base_pid_path); on an error process_file returns
\* (file_path, True, None, None).
BaseRename(i) ==
  LET t == task[i] IN
  /\ t.pc = "baserename"
  /\ IF RenameOk(fs, t.pdf_path, t.pid_path)
       THEN /\ fs' = Rename(fs, t.pdf_path, t.pid_path)
            /\ task' = [task EXCEPT ![i] = [t EXCEPT !.pc = "lang",
                                                     !.pdf_path = t.pid_path]]
            /\ UNCHANGED doneq
       ELSE /\ Return(i, "ok", "", t)
            /\ UNCHANGED fs
  /\ UNCHANGED wrote_over
  /\ TaskUnchanged

\* detect_language(pdf_path).
DetectLanguage(i) ==
  LET t == task[i] IN
  /\ t.pc = "lang"
  /\ task' = [task EXCEPT ![i] =
                 [t EXCEPT !.pc = "finalprobe",
                           !.language_suffix = detect_language(fs, t.pdf_path)]]
  /\ UNCHANGED <<fs, wrote_over, doneq>>
  /\ TaskUnchanged

\* The country lookup and the existence probes that choose pid_path.
FinalProbe(i) ==
  LET t == task[i]
      pid_path == FinalName(TargetDir(i), t.project_id,
                            CountryOf(t.project_id), t.language_suffix)
  IN
  /\ t.pc = "finalprobe"
  /\ task' = [task EXCEPT ![i] =
                 [t EXCEPT !.pc = "finalrename",
                           !.pid_path = FinalPidPath(existing, pid_path,
                                                     t.pdf_path)]]
  /\ UNCHANGED <<fs, wrote_over, doneq>>
  /\ TaskUnchanged

\* os.rename(pdf_path, pid_path); process_file returns
\* (file_path, True, None, project_id) whether or not the rename raised.
FinalRename(i) ==
  LET t == task[i] IN
  /\ t.pc = "finalrename"
  /\ IF RenameOk(fs, t.pdf_path, t.pid_path)
       THEN /\ fs' = Rename(fs, t.pdf_path, t.pid_path)
            /\ Return(i, "ok", t.project_id, [t EXCEPT !.pdf_path = t.pid_path])
       ELSE /\ Return(i, "ok", t.project_id, t)
            /\ UNCHANGED fs
  /\ UNCHANGED wrote_over
  /\ TaskUnchanged

(***************************************************************************)
(* The main thread: the batch loop, the report, the copy of the PDFs.      *)
(***************************************************************************)
EnvUnchanged ==
  UNCHANGED <<inputs, variant, cpu_count, platform, input_valid, output_dir, entry, uq,
              spreadsheet, call, temp>>

MainUnchanged == EnvUnchanged /\ UNCHANGED country_mapping

\* Where the script goes once the platform and the input directory are
\* accepted: convert_folder_to_pdf skips the batch loop and the report when
\* there is no Word document; docx2pdf_converter's main returns 0.
FirstStep(v, in) ==
  IF SelectSeq(in, LAMBDA f : IsConvertible(v, f)) # <<>> THEN "taskkill"
  ELSE IF v = "word_to_pdf" THEN "copy" ELSE "done"

\* The main thread stops: sys.exit(n), or the end of the script.
Exit(n) == mpc' = "done" /\ exit_status' = <<n>>

\* "if args.input and args.output: pass" of word_to_pdf's __main__.
CommandLineMode == variant = "word_to_pdf" /\ entry = "flags"

\* default=min(os.cpu_count(), 4) of docx2pdf_converter's --workers raises
\* TypeError when os.cpu_count() is None.
WorkersDefaultRaises == variant = "docx2pdf_converter" /\ cpu_count = 0

\* The script from its start to the discovery of the input files: the
\* command-line arguments, the platform check, the validation of the input
\* directory, os.makedirs(output_dir, exist_ok=True), os.walk(input_dir).
\* A caller of process_batch enters at the submission of the batch.
Start ==
  /\ mpc = "start"
  /\ IF entry = "process_batch"
       THEN mpc' = "submit" /\ UNCHANGED <<exit_status, dirs, country_mapping>>
       ELSE IF CommandLineMode
         THEN Exit(0) /\ UNCHANGED <<dirs, country_mapping>>
       ELSE IF WorkersDefaultRaises
         THEN Exit(1) /\ UNCHANGED <<dirs, country_mapping>>
       ELSE IF platform # "Windows"
         THEN Exit(1) /\ UNCHANGED <<dirs, country_mapping>>
       ELSE IF ~input_valid
         THEN Exit(1) /\ UNCHANGED <<dirs, country_mapping>>
       ELSE /\ country_mapping' =
                 IF variant = "word_to_pdf" THEN PromptedMapping(spreadsheet)
                 ELSE country_mapping
            /\ dirs' = dirs \cup {"."}
            /\ IF FirstStep(variant, inputs) = "done"
                 THEN Exit(0)
                 ELSE /\ mpc' = FirstStep(variant, inputs)
                      /\ UNCHANGED exit_status
  /\ UNCHANGED <<fs, batch_start, successful, failed, reported, task, doneq,
                 copy_next, found, wrote_over, prekills, batches, rc>>
  /\ EnvUnchanged

\* batch = word_files[i:i+batch_size], as task numbers.
BatchOf_FromStart(start) == {i \in Tasks : start <= i /\ i <= start + BatchSize}

BatchOf(start) == {i \in Tasks : start < i /\ i <= start + BatchSize}

BatchNumber(i) == ((i - 1) \div BatchSize) + 1

Finished(i) == task[i].pc \in {"done", "collected"}

\* "Clean up any existing Word processes before each batch".
PreBatchKill ==
  /\ mpc = "taskkill"
  /\ task' = KillAllWord(task)
  /\ prekills' = Append(prekills, (batch_start \div BatchSize) + 1)
  /\ mpc' = "submit"
  /\ UNCHANGED <<fs, batch_start, successful, failed, reported, doneq,
                 copy_next, found, wrote_over, batches, exit_status, dirs, rc>>
  /\ MainUnchanged

\* executor.submit for every file of the batch.
SubmitBatch ==
  /\ mpc = "submit"
  /\ task' = [i \in Tasks |->
                IF i \in BatchOf(batch_start)
                  THEN [task[i] EXCEPT !.pc = "queued"] ELSE task[i]]
  /\ batches' = Append(batches, BatchOf(batch_start))
  /\ mpc' = "collect"
  /\ UNCHANGED <<fs, batch_start, successful, failed, reported, doneq,
                 copy_next, found, wrote_over, prekills, exit_status, dirs, rc>>
  /\ MainUnchanged

\* Which script keeps the counters: docx2pdf_converter's main adds one to
\* successful or failed per result; word_to_pdf's process_batch only prints.
CountsResults(v) == v = "docx2pdf_converter"

\* One iteration of "for future in as_completed(future_to_file)".
CollectResult ==
  /\ mpc = "collect"
  /\ doneq # <<>>
  /\ LET i == Head(doneq) IN
       /\ task' = [task EXCEPT ![i].pc = "collected"]
       /\ IF CountsResults(variant)
            THEN /\ successful' =
                       successful + (IF task[i].success = "ok" THEN 1 ELSE 0)
                 /\ failed' =
                       failed + (IF task[i].success = "ok" THEN 0 ELSE 1)
            ELSE UNCHANGED <<successful, failed>>
  /\ doneq' = Tail(doneq)
  /\ UNCHANGED <<fs, mpc, batch_start, reported, copy_next, found, wrote_over,
                 prekills, batches, exit_status, dirs, rc>>
  /\ MainUnchanged

\* The as_completed loop has seen every future and the executor's with
\* block exits, which waits for every worker.
PoolDrained_NoWait(start) == \A i \in BatchOf(start) : task[i].pc # "queued"

PoolDrained(start) == \A i \in BatchOf(start) : task[i].pc = "collected"

\* The end of one iteration of "for i in range(0, len(word_files), batch_size)";
\* for a caller of process_batch, its return.
EndBatch ==
  /\ mpc = "collect"
  /\ PoolDrained(batch_start)
  /\ batch_start' = batch_start + BatchSize
  /\ mpc' = IF entry = "process_batch" THEN "done"
            ELSE IF batch_start + BatchSize < NWord THEN "taskkill"
            ELSE "report"
  /\ UNCHANGED <<fs, successful, failed, reported, task, doneq, copy_next, found,
                 wrote_over, prekills, batches, exit_status, dirs, rc>>
  /\ MainUnchanged

\* "Successfully converted: ..." and "Failed conversions: ...".
\* docx2pdf_converter's main then returns 0.
\* The walk of input_dir at the top of copy_existing_pdfs, which comes
\* after the conversion: besides the PDFs of inputs it finds the PDFs that
\* the conversion wrote when the output directory is the input directory.
\* The model lists them in one order.
WalkFinds(f) ==
  LET RECURSIVE ListOf(_)
      ListOf(paths) ==
        IF paths = {} THEN <<>>
        ELSE LET p == CHOOSE q \in paths : TRUE
             IN  <<p>> \o ListOf(paths \ {p})
  IN  IF output_dir = "input"
        THEN ListOf({p \in DOMAIN f : f[p] \in 1..NWord})
        ELSE <<>>

\* The report, and the call of copy_existing_pdfs up to its loop.
Report ==
  /\ mpc = "report"
  /\ reported' = <<successful, failed>>
  /\ IF variant = "word_to_pdf"
       THEN mpc' = "copy" /\ found' = WalkFinds(fs) /\ UNCHANGED exit_status
       ELSE Exit(0) /\ UNCHANGED found
  /\ UNCHANGED <<fs, batch_start, successful, failed, task, doneq, copy_next,
                 wrote_over, prekills, batches, dirs, rc>>
  /\ MainUnchanged

\* The k-th file of the list of copy_existing_pdfs: the PDFs of inputs,
\* then the PDFs found besides them, each with the content it has.
CopyContent(f, k) ==
  IF k <= Len(pdf_files) THEN NWord + k
  ELSE IF found[k - Len(pdf_files)] \in DOMAIN f
    THEN f[found[k - Len(pdf_files)]]
  ELSE 0

CopyFile(f, k) ==
  IF k <= Len(pdf_files) THEN pdf_files[k]
  ELSE [Content(CopyContent(f, k)) EXCEPT
          !.dir = found[k - Len(pdf_files)][1],
          !.stem = Tail(found[k - Len(pdf_files)]),
          !.ext = "pdf"]

\* copy_existing_pdfs, one iteration of "for pdf_file in pdf_files" with
\* rename_with_pid = True.  The copy runs in the main thread after the last
\* batch, so nothing else touches the output tree meanwhile.
CopyWithPid(f, k, target_dir, project_id) ==
  LET c == CopyContent(f, k)
      base_dest_file == BasePidPath(DOMAIN f, target_dir, project_id)
      f1 == WriteFile(f, base_dest_file, c)
      language_suffix == detect_language(f1, base_dest_file)
      final_dest_file ==
        FinalPidPath(DOMAIN f1,
                     FinalName(target_dir, project_id, CountryOf(project_id),
                               language_suffix),
                     base_dest_file)
  IN  [fs |-> IF RenameOk(f1, base_dest_file, final_dest_file)
                THEN Rename(f1, base_dest_file, final_dest_file) ELSE f1,
       over |-> Clobber(f, base_dest_file, c)]

CopyPlain(f, k, dest_file) ==
  LET c == CopyContent(f, k)
      dest == IF dest_file \in DOMAIN f
                THEN get_unique_filename(DOMAIN f, dest_file) ELSE dest_file
  IN  [fs |-> WriteFile(f, dest, c), over |-> Clobber(f, dest, c)]

CopyOne(f, k) ==
  LET pdf_file == CopyFile(f, k)
      project_id == IF TextId(pdf_file) # "" THEN TextId(pdf_file)
                    ELSE extract_project_id_from_filename(pdf_file)
  IN  IF project_id # ""
        THEN CopyWithPid(f, k, pdf_file.dir, project_id)
        ELSE CopyPlain(f, k, <<pdf_file.dir>> \o pdf_file.stem)

\* os.makedirs(target_dir, exist_ok=True) of copy_existing_pdfs.
CopyTargetDir(d, k) ==
  IF CopyFile(fs, k).dir # "." THEN d \cup {CopyFile(fs, k).dir} ELSE d

CopyPdf ==
  /\ mpc = "copy"
  /\ copy_next <= Len(pdf_files) + Len(found)
  /\ dirs' = CopyTargetDir(dirs, copy_next)
  /\ fs' = CopyOne(fs, copy_next).fs
  /\ wrote_over' = wrote_over \cup CopyOne(fs, copy_next).over
  /\ copy_next' = copy_next + 1
  /\ UNCHANGED <<mpc, batch_start, successful, failed, reported, task, doneq,
                 prekills, batches, exit_status, rc, found>>
  /\ MainUnchanged

\* copy_existing_pdfs returns.  "if country_mapping:" guards both calls of
\* apply_country_mapping_to_existing_files; with an empty mapping or none
\* convert_folder_to_pdf goes on to "return 0".
EndCopy ==
  /\ mpc = "copy"
  /\ copy_next > Len(pdf_files) + Len(found)
  /\ IF DOMAIN country_mapping # {}
       THEN mpc' = "reconcile" /\ UNCHANGED exit_status
       ELSE Exit(0)
  /\ UNCHANGED <<fs, batch_start, successful, failed, reported, task, doneq,
                 copy_next, found, wrote_over, prekills, batches, dirs, rc>>
  /\ MainUnchanged

(***************************************************************************)
(* apply_country_mapping_to_existing_files: the reconciliation pass.       *)
(***************************************************************************)
\* re.search(r'(P\d{6})', filename): the first identifier of the name,
\* wherever it is.
RECURSIVE FirstPidAnywhere(_, _)
FirstPidAnywhere(parts, k) ==
  IF k > Len(parts) THEN ""
  ELSE IF parts[k] \in Pids THEN parts[k]
  ELSE FirstPidAnywhere(parts, k + 1)

\* "country in filename": the words of the country, joined by '_', occur
\* in the name.
ContainsCountry_Never(parts, country) == FALSE

ContainsCountry(parts, country) ==
  \E k \in 0..(Len(parts) - Len(country)) :
     SubSeq(parts, k + 1, k + Len(country)) = country

\* base.isdigit() for the last part of the name without its extension.
IsDigit(base) ==
  \E n \in 0..99 : base = ToString(n) \/ base = "0" \o ToString(n)

\* The while loop "Handle duplicate filenames" when the last part is not a
\* counter: that part is replaced by f"{counter:02d}.pdf".
RECURSIVE CountryLoop(_, _, _, _)
CountryLoop(ex, pdf_file, kept, counter) ==
  LET new_path == Append(kept, Fmt02(counter))
  IN  IF new_path \in ex /\ new_path # pdf_file
        THEN CountryLoop(ex, pdf_file, kept, counter + 1)
        ELSE new_path

\* What one iteration of "for pdf_file in pdf_files" decides for pdf_file:
\* skip it, rename it to path, or never leave the while loop (when the
\* first candidate is taken and the last part of the name is a counter,
\* the loop builds the same candidate again and again).
CountryRename(ex, pdf_file) ==
  LET parts == Tail(pdf_file)
      project_id == FirstPidAnywhere(parts, 1)
      country == CountryOf(project_id)
      new_path == <<pdf_file[1], project_id>> \o country \o Tail(parts)
      collides == new_path \in ex /\ new_path # pdf_file
  IN  IF \/ project_id = ""
         \/ project_id \notin DOMAIN country_mapping
         \/ ContainsCountry(parts, country)
         \/ parts[1] # project_id
        THEN [do |-> "skip", path |-> pdf_file]
      ELSE IF ~collides THEN [do |-> "rename", path |-> new_path]
      ELSE IF Len(parts) > 1 /\ IsDigit(parts[Len(parts)])
        THEN [do |-> "loop", path |-> new_path]
      ELSE IF Len(parts) > 1
        THEN [do |-> "rename",
              path |-> CountryLoop(ex, pdf_file,
                                   <<pdf_file[1], project_id>> \o country
                                     \o SubSeq(parts, 2, Len(parts) - 1), 1)]
      ELSE [do |-> "rename",
            path |-> CountryLoop(ex, pdf_file,
                                 <<pdf_file[1], project_id>> \o country, 1)]

RcIdle ==
  [pdf_files |-> {}, updated_count |-> 0, updated_files |-> <<>>,
   trees |-> <<>>, renamed |-> {}]

ReconcileUnchanged ==
  UNCHANGED <<batch_start, successful, failed, reported, task, doneq,
              copy_next, found, wrote_over, prekills, batches, dirs>>

\* The pass returns updated_count; after the second pass
\* convert_folder_to_pdf returns 0.
ReturnCount(r, n, f) ==
  /\ rc' = [r EXCEPT !.updated_files = Append(@, n), !.trees = Append(@, f)]
  /\ IF Len(r.updated_files) + 1 = 2
       THEN Exit(0)
       ELSE mpc' = "reconcile" /\ UNCHANGED exit_status

\* apply_country_mapping_to_existing_files up to its loop: the PDFs of the
\* output tree are listed; without any the pass returns 0.
BeginReconcile ==
  /\ mpc = "reconcile"
  /\ IF existing = {}
       THEN ReturnCount(rc, 0, fs)
       ELSE /\ rc' = [rc EXCEPT !.pdf_files = existing, !.updated_count = 0]
            /\ mpc' = "reconcile_loop"
            /\ UNCHANGED exit_status
  /\ UNCHANGED fs
  /\ ReconcileUnchanged
  /\ MainUnchanged

\* One iteration of "for pdf_file in pdf_files"; os.walk lists the files in
\* an arbitrary order.
ReconcileFile ==
  /\ mpc = "reconcile_loop"
  /\ \E pdf_file \in rc.pdf_files :
       LET d == CountryRename(existing, pdf_file)
           rest == [rc EXCEPT !.pdf_files = @ \ {pdf_file}]
       IN  IF d.do = "skip"
             THEN rc' = rest /\ UNCHANGED <<fs, mpc>>
           ELSE IF d.do = "loop"
             THEN mpc' = "hung" /\ UNCHANGED <<fs, rc>>
           ELSE IF RenameOk(fs, pdf_file, d.path)
             THEN /\ fs' = Rename(fs, pdf_file, d.path)
                  /\ rc' = [rest EXCEPT !.updated_count = @ + 1,
                                         !.renamed = @ \cup {<<pdf_file, d.path>>}]
                  /\ UNCHANGED mpc
           ELSE rc' = rest /\ UNCHANGED <<fs, mpc>>
  /\ UNCHANGED exit_status
  /\ ReconcileUnchanged
  /\ MainUnchanged

\* The loop is over: "return updated_count".
EndReconcile ==
  /\ mpc = "reconcile_loop"
  /\ rc.pdf_files = {}
  /\ ReturnCount(rc, rc.updated_count, fs)
  /\ UNCHANGED fs
  /\ ReconcileUnchanged
  /\ MainUnchanged

(***************************************************************************)
(* Runs of the pipeline.                                                   *)
(***************************************************************************)
Docx(dir, stem, cpid, lang, conv) == InputFile(dir, stem, "docx", cpid, lang, conv)

Kenya == [p \in {"P654321"} |-> <<"Kenya">>]

EmptyTree == [p \in {} |-> 0]

Tree(paths) == [p \in paths |-> 0]

BothCountries ==
  [p \in Pids |-> IF p = "P111111" THEN <<"South", "Africa">> ELSE <<"Kenya">>]

\* A run of the script on Windows with a valid input directory; the user
\* names a spreadsheet that reads when there is a mapping.
Scenario(in, cm, v, cpu, tree) ==
  [inputs |-> in, country_mapping |-> cm, variant |-> v, cpu_count |-> cpu,
   fs |-> tree, platform |-> "Windows", input_valid |-> TRUE,
   entry |-> "main", reads |-> IF cm = NoMapping THEN "none" ELSE "ok",
   output_dir |-> "separate"]

\* One document that Word cannot convert among documents it can, in two
\* batches.
OneFails ==
  Scenario(<<Docx(".", <<"bad">>, "", "EN", "fail"),
             Docx(".", <<"a">>, "P111111", "NON", "ok"),
             Docx("sub", <<"a">>, "", "EN", "ok"),
             Docx(".", <<"c">>, "", "EN", "ok")>>,
           NoMapping, "word_to_pdf", 4, EmptyTree)

\* docx2pdf_converter: the same stem in two directories, a failing
\* document, a .doc that it does not look at, in two batches.
Docx2Pdf ==
  Scenario(<<Docx(".", <<"a">>, "", "EN", "ok"),
             InputFile(".", <<"old">>, "doc", "", "EN", "ok"),
             Docx("sub", <<"a">>, "", "EN", "ok"),
             Docx(".", <<"bad">>, "", "EN", "fail"),
             Docx(".", <<"c">>, "", "EN", "ok")>>,
           NoMapping, "docx2pdf_converter", 2, Tree({<<".", "c">>}))

\* The runs of the scripts that are checked.
Scenarios ==
  LET SouthAfrica == [p \in {"P111111"} |-> <<"South", "Africa">>]

      \* Two documents with the same identifier, no country, not English.
      TwoSameId ==
        Scenario(<<Docx(".", <<"a">>, "P111111", "NON", "ok"),
                   Docx(".", <<"b">>, "P111111", "NON", "ok")>>,
                 NoMapping, "word_to_pdf", 4, EmptyTree)

      \* a.doc and a.docx: the same stem in one directory.
      TwoSameStem ==
        Scenario(<<InputFile(".", <<"a">>, "doc", "", "EN", "ok"),
                   Docx(".", <<"a">>, "", "EN", "ok")>>,
                 NoMapping, "word_to_pdf", 0, EmptyTree)

      \* report.docx with P654321 in its text, P654321_notes.doc with the
      \* identifier in its name only, and a country for P654321.
      WithCountry ==
        Scenario(<<Docx(".", <<"report">>, "P654321", "EN", "ok"),
                   InputFile(".", <<"P654321", "notes">>, "doc", "", "NON", "ok")>>,
                 Kenya, "word_to_pdf", 8, Tree({<<".", "P654321", "Kenya", "EN">>}))

      \* PDFs that are copied: two with the identifier of a converted document,
      \* one with the identifier in its name, one without identifier whose name
      \* is taken.
      WithPdfs ==
        Scenario(<<Docx(".", <<"a">>, "P111111", "NON", "ok"),
                   InputFile(".", <<"old">>, "pdf", "P111111", "NON", "ok"),
                   InputFile(".", <<"P654321", "x">>, "pdf", "", "EN", "ok"),
                   InputFile(".", <<"plain">>, "pdf", "", "EN", "ok")>>,
                 SouthAfrica, "word_to_pdf", 4, Tree({<<".", "plain">>}))

      \* Two documents in a OneDrive folder: one that Word converts only from a
      \* local copy, one that it cannot convert.
      InOneDriveFolder ==
        Scenario(<<Docx("OneDrive", <<"a">>, "", "EN", "copy"),
                   Docx("OneDrive", <<"b">>, "P111111", "NON", "fail")>>,
                 NoMapping, "word_to_pdf", 4, EmptyTree)

      \* a.doc, on which Word raises in every attempt, and a.docx with an
      \* identifier in its text.
      SameStemOneFails ==
        Scenario(<<InputFile(".", <<"a">>, "doc", "", "EN", "fail"),
                   Docx(".", <<"a">>, "P111111", "NON", "ok")>>,
                 NoMapping, "word_to_pdf", 4, EmptyTree)

      \* A document on which Word does not answer, next to one on which
      \* it raises in every attempt, with two workers.
      WordHangs ==
        Scenario(<<Docx(".", <<"hang">>, "", "EN", "hang"),
                   Docx(".", <<"bad">>, "", "EN", "fail")>>,
                 NoMapping, "word_to_pdf", 4, EmptyTree)

      \* The user names the input directory as output directory: a
      \* document with an identifier, one without, and a PDF.
      OutputIsInput ==
        [Scenario(<<Docx(".", <<"a">>, "P111111", "NON", "ok"),
                    Docx(".", <<"b">>, "", "EN", "ok"),
                    InputFile(".", <<"old">>, "pdf", "", "EN", "ok")>>,
                  NoMapping, "word_to_pdf", 4, EmptyTree)
           EXCEPT !.output_dir = "input"]

      \* docx2pdf_converter where no .docx is found.
      NoDocx ==
        Scenario(<<InputFile(".", <<"old">>, "doc", "", "EN", "ok")>>,
                 NoMapping, "docx2pdf_converter", 4, EmptyTree)

      \* Runs that stop at the start: another platform, an invalid input
      \* directory, the command-line mode of word_to_pdf, an undetectable CPU
      \* count in docx2pdf_converter; and docx2pdf_converter on one CPU.
      Variants ==
        {[OneFails EXCEPT !.platform = "Linux"],
         [Docx2Pdf EXCEPT !.platform = "Linux"],
         [WithPdfs EXCEPT !.input_valid = FALSE],
         [Docx2Pdf EXCEPT !.input_valid = FALSE],
         [TwoSameStem EXCEPT !.entry = "flags"],
         [OneFails EXCEPT !.entry = "flags", !.platform = "Linux"],
         [WithPdfs EXCEPT !.entry = "flags", !.input_valid = FALSE],
         [Docx2Pdf EXCEPT !.cpu_count = 0],
         [Docx2Pdf EXCEPT !.cpu_count = 1]}

      \* Output trees for the reconciliation pass: names with the identifier
      \* first, with and without country, language tag and counter, in the
      \* output directory and below it, and a name with the identifier elsewhere.
      ReconcileNames ==
        {<<".", "P111111">>,
         <<".", "P111111", "NON">>,
         <<".", "P111111", "South", "Africa", "NON">>,
         <<".", "P111111", "01">>,
         <<".", "P111111", "South", "Africa", "01">>,
         <<".", "notes", "P654321", "EN">>,
         <<"sub", "P654321", "EN">>}

      \* A run without input files on an output tree left by earlier runs.
      OnTree(names) ==
        Scenario(<<>>, BothCountries, "word_to_pdf", 4, Tree(names))

      \* Documents whose PDF has no text layer or cannot be read by PyPDF2,
      \* with an identifier in the text that Word shows, and a PDF to copy that
      \* cannot be read.
      UnreadablePdfs ==
        Scenario(<<WithPdf(Docx(".", <<"scan">>, "P111111", "EN", "ok"), "scanned"),
                   WithPdf(Docx(".", <<"P654321", "x">>, "P111111", "EN", "ok"),
                           "unreadable"),
                   WithPdf(InputFile(".", <<"old">>, "pdf", "P111111", "EN", "ok"),
                           "unreadable")>>,
                 NoMapping, "word_to_pdf", 4, EmptyTree)

      \* Runs in which the spreadsheet that the user names does not give a
      \* mapping, on inputs and on an output tree that a mapping would change.
      BadSpreadsheets ==
        {[WithCountry EXCEPT !.reads = k] :
           k \in {"not_found", "unsupported", "malformed", "bad_index",
                  "bad_column"}}
          \cup {[WithPdfs EXCEPT !.reads = "malformed"],
                [OnTree({<<".", "P111111", "NON">>, <<"sub", "P654321", "EN">>})
                   EXCEPT !.reads = "unsupported"]}
  IN  {TwoSameId, TwoSameStem, WithCountry, OneFails, Docx2Pdf, WithPdfs,
       InOneDriveFolder, SameStemOneFails, NoDocx, UnreadablePdfs,
       WordHangs, OutputIsInput}
        \cup Variants
        \cup BadSpreadsheets
        \cup {OnTree(names) : names \in SUBSET ReconcileNames}

CallIdle == [fn |-> "", pc |-> "idle", in |-> <<>>, result |-> <<>>]

UqIdle == [pc |-> "idle", f |-> NoPath, r1 |-> NoPath, r2 |-> NoPath]

InitRun(sc) ==
  /\ inputs = sc.inputs
  /\ country_mapping =
       IF sc.entry = "process_batch" THEN sc.country_mapping ELSE NoMapping
  /\ spreadsheet = [reads |-> sc.reads, mapping |-> sc.country_mapping]
  /\ batches = <<>>
  /\ call = CallIdle
  /\ variant = sc.variant
  /\ cpu_count = sc.cpu_count
  /\ output_dir = sc.output_dir
  \* The PDFs of the input directory are in the output tree when the user
  \* names the input directory as output directory.
  /\ LET words == SelectSeq(sc.inputs, LAMBDA f : IsConvertible(sc.variant, f))
         pdfs == SelectSeq(sc.inputs, LAMBDA f : IsPdf(f))
         InputPdfs ==
           [p \in {<<pdfs[k].dir>> \o pdfs[k].stem : k \in 1..Len(pdfs)} |->
              Len(words)
                + CHOOSE k \in 1..Len(pdfs) : p = <<pdfs[k].dir>> \o pdfs[k].stem]
     IN  fs = IF sc.output_dir = "input" THEN InputPdfs ELSE sc.fs
  /\ platform = sc.platform
  /\ input_valid = sc.input_valid
  /\ entry = sc.entry
  /\ exit_status = <<>>
  /\ dirs = {p[1] : p \in DOMAIN sc.fs}
             \cup (IF sc.entry = "process_batch" THEN {"."} ELSE {})
  /\ temp = {}
  /\ rc = RcIdle
  /\ mpc = "start"
  /\ batch_start = 0
  /\ successful = 0
  /\ failed = 0
  /\ reported = <<>>
  /\ task = [i \in 1..Len(SelectSeq(sc.inputs,
                                     LAMBDA f : IsConvertible(sc.variant, f)))
               |-> IdleTask]
  /\ doneq = <<>>
  /\ copy_next = 1
  /\ found = <<>>
  /\ wrote_over = {}
  /\ prekills = <<>>
  /\ uq = UqIdle

Init == \E sc \in Scenarios : InitRun(sc)

Next ==
  \/ Start
  \/ PreBatchKill
  \/ SubmitBatch
  \/ CollectResult
  \/ EndBatch
  \/ Report
  \/ CopyPdf
  \/ EndCopy
  \/ BeginReconcile
  \/ ReconcileFile
  \/ EndReconcile
  \/ \E i \in Tasks : StartTask(i)
  \/ \E i \in Tasks : BeginAttempt(i)
  \/ \E i \in Tasks : SaveAs(i)
  \/ \E i \in Tasks : EndAttemptOk(i)
  \/ \E i \in Tasks : FallBack(i)
  \/ \E i \in Tasks : EndFallBackOk(i)
  \/ \E i \in Tasks : EndAttemptFail(i)
  \/ \E i \in Tasks : Backoff(i)
  \/ \E i \in Tasks : KillWord(i)
  \/ \E i \in Tasks : Wait(i)
  \/ \E i \in Tasks : Extract(i)
  \/ \E i \in Tasks : BaseProbe(i)
  \/ \E i \in Tasks : BaseRename(i)
  \/ \E i \in Tasks : DetectLanguage(i)
  \/ \E i \in Tasks : FinalProbe(i)
  \/ \E i \in Tasks : FinalRename(i)

Spec == Init /\ [][Next]_vars

\* Calls of process_batch by a caller, on Windows and on another platform,
\* next to the runs of the script.
Called ==
  {[sc EXCEPT !.entry = "process_batch", !.platform = pf] :
     sc \in {OneFails, Docx2Pdf}, pf \in {"Windows", "Linux"}}

InitProcessFile == Init \/ \E sc \in Called : InitRun(sc)

SpecProcessFile == InitProcessFile /\ [][Next]_vars

(***************************************************************************)
(* Calls of get_unique_filename on arbitrary directories.                  *)
(***************************************************************************)
UqBase == <<".", "a">>

\* The counter N written in decimal with a zero in front when N < 10.
ZeroPadded(n) == IF n < 10 THEN "0" \o ToString(n) ELSE ToString(n)

\* The name of the desired path f with the counter n before the extension.
Disambiguated(f, n) == Append(f, ZeroPadded(n))

UqDesired == {UqBase, <<".", "a", "01">>, <<".", "b">>}

Occupied(k) == {UqBase} \cup {Disambiguated(UqBase, n) : n \in 1..k}

\* Directories: every set of these names, and the directories where the
\* desired name and its first k disambiguated names are taken.
UqDirectories ==
  LET UqNames ==
        {UqBase, <<".", "a", "01">>, <<".", "a", "02">>, <<".", "a", "03">>,
         <<".", "a", "01", "01">>, <<".", "b">>}
  IN  (SUBSET UqNames) \cup {Occupied(k) : k \in 0..MaxOccupied}

InitUnique ==
  /\ \E d \in UqDirectories : fs = Tree(d)
  /\ uq = [UqIdle EXCEPT !.pc = "start"]
  /\ inputs = <<>>
  /\ country_mapping = NoMapping
  /\ spreadsheet = [reads |-> "none", mapping |-> NoMapping]
  /\ batches = <<>>
  /\ call = CallIdle
  /\ variant = "word_to_pdf"
  /\ cpu_count = 0
  /\ platform = "Windows"
  /\ input_valid = TRUE
  /\ output_dir = "separate"
  /\ entry = "main"
  /\ exit_status = <<>>
  /\ dirs = {"."}
  /\ temp = {}
  /\ rc = RcIdle
  /\ mpc = "done"
  /\ batch_start = 0
  /\ successful = 0
  /\ failed = 0
  /\ reported = <<>>
  /\ task = <<>>
  /\ doneq = <<>>
  /\ copy_next = 1
  /\ found = <<>>
  /\ wrote_over = {}
  /\ prekills = <<>>

UqUnchanged ==
  UNCHANGED <<inputs, country_mapping, variant, cpu_count, platform,
                 input_valid, output_dir, entry, mpc, batch_start,
              successful, failed, reported, task, doneq, copy_next, found, prekills,
              batches, exit_status, dirs, temp, rc, spreadsheet, call>>

\* get_unique_filename(f).
UqCall ==
  /\ uq.pc = "start"
  /\ \E f \in UqDesired :
       uq' = [uq EXCEPT !.pc = "called", !.f = f,
                        !.r1 = get_unique_filename(existing, f)]
  /\ UNCHANGED <<fs, wrote_over>>
  /\ UqUnchanged

\* The caller creates the file at the path it was given.
UqCreate ==
  /\ uq.pc = "called"
  /\ fs' = WriteFile(fs, uq.r1, 0)
  /\ wrote_over' = wrote_over \cup Clobber(fs, uq.r1, 0)
  /\ uq' = [uq EXCEPT !.pc = "created"]
  /\ UqUnchanged

\* get_unique_filename(f) again.
UqCallAgain ==
  /\ uq.pc = "created"
  /\ uq' = [uq EXCEPT !.pc = "again",
                      !.r2 = get_unique_filename(existing, uq.f)]
  /\ UNCHANGED <<fs, wrote_over>>
  /\ UqUnchanged

NextUnique == UqCall \/ UqCreate \/ UqCallAgain

SpecUnique == InitUnique /\ [][NextUnique]_vars

(***************************************************************************)
(* The functions on text: a text is a sequence of characters, None is <<>>.*)
(***************************************************************************)
Digits == {"0", "1", "2", "3", "4", "5", "6", "7", "8", "9"}

\* The {6} of the patterns P[0-9O]{6}, P\d{6} and P\d{6}[-_].
IdLen == 6

\* The pattern 'P' followed by IdLen characters of class matches at k.
MatchesAt(text, k, class) ==
  /\ k >= 1
  /\ k + IdLen <= Len(text)
  /\ text[k] = "P"
  /\ \A j \in 1..IdLen : text[k + j] \in class

\* re.findall(pattern, text)[0]: the leftmost match, <<>> when there is none.
RECURSIVE FirstMatchFrom(_, _, _)
FirstMatchFrom(text, k, class) ==
  IF k > Len(text) THEN <<>>
  ELSE IF MatchesAt(text, k, class) THEN SubSeq(text, k, k + IdLen)
  ELSE FirstMatchFrom(text, k + 1, class)

\* 'P' + pid[1:].replace('O', '0').
Corrected(pid) ==
  [j \in 1..Len(pid) |-> IF j > 1 /\ pid[j] = "O" THEN "0" ELSE pid[j]]

\* The character class after P: [0-9O] in word_to_pdf.py, \d in
\* PID_RENAME.py.
PidClass(module) ==
  IF module = "word_to_pdf" THEN Digits \cup {"O"} ELSE Digits

\* "for page_num in range(pages_to_search)": the first page with a match
\* decides; word_to_pdf.py corrects the match, PID_RENAME.py returns it.
RECURSIVE SearchPages(_, _, _, _)
SearchPages(module, pages, page_num, pages_to_search) ==
  LET pid == FirstMatchFrom(pages[page_num], 1, PidClass(module)) IN
  IF page_num > pages_to_search THEN <<>>
  ELSE IF pid # <<>>
    THEN IF module = "word_to_pdf" THEN Corrected(pid) ELSE pid
  ELSE SearchPages(module, pages, page_num + 1, pages_to_search)

\* extract_project_id(pdf_path, max_pages) on the text of the pages; a PDF
\* that PdfReader cannot read raises, and the except clause returns None.
extract_project_id_text(module, pdf, max_pages) ==
  IF ~pdf.readable THEN <<>>
  ELSE SearchPages(module, pdf.pages, 1, Min(Len(pdf.pages), max_pages))

\* The pattern P\d{6}[-_] matches at k.
SeparatorAfter_OrDot(filename, k) ==
  k + IdLen + 1 <= Len(filename)
    /\ filename[k + IdLen + 1] \in {"-", "_", "."}

SeparatorAfter(filename, k) ==
  k + IdLen + 1 <= Len(filename) /\ filename[k + IdLen + 1] \in {"-", "_"}

RECURSIVE FirstFilenameMatchFrom(_, _)
FirstFilenameMatchFrom(filename, k) ==
  IF k > Len(filename) THEN <<>>
  ELSE IF MatchesAt(filename, k, Digits) /\ SeparatorAfter(filename, k)
    THEN SubSeq(filename, k, k + IdLen + 1)
  ELSE FirstFilenameMatchFrom(filename, k + 1)

\* matches[0][:-1] of extract_project_id_from_filename.
extract_project_id_from_filename_text(filename) ==
  LET m == FirstFilenameMatchFrom(filename, 1)
  IN  IF m = <<>> THEN <<>> ELSE SubSeq(m, 1, Len(m) - 1)

\* max_pages=10 of extract_project_id.
max_pages_default == 10

\* project_id of process_file: extract_project_id(pdf_path), and the file
\* name "if not project_id".
project_id_text(pdf, filename) ==
  IF extract_project_id_text("word_to_pdf", pdf, max_pages_default) # <<>>
    THEN extract_project_id_text("word_to_pdf", pdf, max_pages_default)
    ELSE extract_project_id_from_filename_text(filename)

\* pages_to_check=3 of detect_language.
pages_to_check_default == 3

\* "Once we have a decent amount of text, we can stop": len(all_text) > 1000.
decent_amount == 1000

\* "If we have enough text to detect language": len(all_text) > 100.
enough_text == 100

EnoughText_AtLeast(all_text) == all_text >= enough_text

EnoughText(all_text) == all_text > enough_text

\* The loop of detect_language over the pages; a page is the number of
\* characters of its text, all_text the number gathered so far.  Gives
\* all_text and the number of pages read.
RECURSIVE GatherText(_, _, _, _)
GatherText(pages, page_num, pages_to_check, all_text) ==
  IF page_num > pages_to_check
    THEN [all_text |-> all_text, read |-> page_num - 1]
  ELSE IF pages[page_num] > 0 /\ all_text + pages[page_num] > decent_amount
    THEN [all_text |-> all_text + pages[page_num], read |-> page_num]
  ELSE GatherText(pages, page_num + 1, pages_to_check,
                  all_text + pages[page_num])

\* detect_language(pdf_path, pages_to_check); detected is what
\* langdetect.detect gives for the text gathered: a language code, or
\* "LangDetectException".  The result is the tag and the pages read.
detect_language_text(pdf, pages_to_check, detected) ==
  IF ~pdf.readable THEN [tag |-> "NON", read |-> 0]
  ELSE
    LET g == GatherText(pdf.pages, 1, Min(Len(pdf.pages), pages_to_check), 0)
    IN  [tag |-> IF EnoughText(g.all_text)
                   THEN IF detected = "LangDetectException" THEN "NON"
                        ELSE IF detected = "en" THEN "EN" ELSE "NON"
                   ELSE "NON",
         read |-> g.read]

\* str(cell) of a cell of the data frame: an empty cell is NaN, and
\* str(NaN) is 'nan'.
Str(cell) == IF cell.nan THEN <<"n", "a", "n">> ELSE cell.text

\* text.strip().
Strip(text) ==
  LET keep == {k \in 1..Len(text) : text[k] # " "}
      lo == CHOOSE k \in keep : \A j \in keep : k <= j
      hi == CHOOSE k \in keep : \A j \in keep : k >= j
  IN  IF keep = {} THEN <<>> ELSE SubSeq(text, lo, hi)

\* pd.isna of a str: never true.
isna(text) == FALSE

\* text.isdigit().
isdigit(text) == text # <<>> /\ \A k \in 1..Len(text) : text[k] \in Digits

PorDigit(c) == c \in Digits \cup {"P"}

\* The body of "for _, row in df.iterrows()": the mapping after the row.
AddRow(mapping, row) ==
  LET project_id == Strip(Str(row.project_id))
      country == Strip(Str(row.country))
      prefixed == IF project_id # <<>> /\ project_id[1] # "P"
                     /\ isdigit(project_id)
                    THEN <<"P">> \o project_id ELSE project_id
      cleaned == SelectSeq(prefixed, PorDigit)
  IN  IF project_id = <<>> \/ country = <<>> \/ isna(project_id)
         \/ isna(country)
        THEN mapping
      ELSE IF MatchesAt(cleaned, 1, Digits)
        THEN [k \in DOMAIN mapping \cup {cleaned} |->
                IF k = cleaned THEN country ELSE mapping[k]]
      ELSE mapping

\* The loop of load_project_country_mapping over the rows from row i on.
RECURSIVE LoadRows(_, _, _)
LoadRows(rows, i, mapping) ==
  IF i > Len(rows) THEN mapping
  ELSE LoadRows(rows, i + 1, AddRow(mapping, rows[i]))

\* load_project_country_mapping on the rows of a spreadsheet that was read,
\* with the two columns chosen.
load_project_country_mapping_rows(rows) ==
  LoadRows(rows, 1, [k \in {} |-> <<>>])

(***************************************************************************)
(* Calls of the functions on text.                                         *)
(***************************************************************************)
\* Texts of pages: "PO12345", "xP654321 P111111", "P12345x", "",
\* "P1234567", "POOOOOO", "P111111".
PageTexts ==
  {<<"P", "O", "1", "2", "3", "4", "5">>,
   <<"x", "P", "6", "5", "4", "3", "2", "1", " ",
     "P", "1", "1", "1", "1", "1", "1">>,
   <<"P", "1", "2", "3", "4", "5", "x">>,
   <<>>,
   <<"P", "1", "2", "3", "4", "5", "6", "7">>,
   <<"P", "O", "O", "O", "O", "O", "O">>,
   <<"P", "1", "1", "1", "1", "1", "1">>}

\* The number of pages of the short documents.
MaxPages == 2

\* File names: "P123456-report.docx", "P123456.docx", "P654321_x.doc",
\* "xP654321-P111111_", "P12345-6", "P1234567-", "notes.doc".
Filenames ==
  {<<"P", "1", "2", "3", "4", "5", "6", "-", "r", "e", "p", "o", "r", "t",
     ".", "d", "o", "c", "x">>,
   <<"P", "1", "2", "3", "4", "5", "6", ".", "d", "o", "c", "x">>,
   <<"P", "6", "5", "4", "3", "2", "1", "_", "x", ".", "d", "o", "c">>,
   <<"x", "P", "6", "5", "4", "3", "2", "1", "-",
     "P", "1", "1", "1", "1", "1", "1", "_">>,
   <<"P", "1", "2", "3", "4", "5", "-", "6">>,
   <<"P", "1", "2", "3", "4", "5", "6", "7", "-">>,
   <<"n", "o", "t", "e", "s", ".", "d", "o", "c">>}

Called_extract_project_id ==
  LET \* Documents of up to MaxPages pages, and documents that have their only
      \* identifier on the page before, at and after max_pages_default.
      PageLists ==
        UNION {[1..n -> PageTexts] : n \in 0..MaxPages}
          \cup {[k \in 1..n |->
                   IF k = n THEN <<"P", "1", "1", "1", "1", "1", "1">> ELSE <<>>] :
                 n \in (max_pages_default - 1)..(max_pages_default + 1)}

      Pdfs == [readable : BOOLEAN, pages : PageLists]
  IN
  {[fn |-> "extract_project_id", pc |-> "called",
    in |-> [module |-> m, pdf |-> pdf, max_pages |-> n], result |-> <<>>] :
   m \in {"word_to_pdf", "PID_RENAME"}, pdf \in Pdfs,
   n \in {1, MaxPages, max_pages_default}}

Called_extract_project_id_from_filename ==
  {[fn |-> "extract_project_id_from_filename", pc |-> "called",
    in |-> [filename |-> f], result |-> <<>>] : f \in Filenames}

Called_project_id ==
  {[fn |-> "project_id", pc |-> "called",
    in |-> [pdf |-> [readable |-> r, pages |-> <<t>>], filename |-> f],
    result |-> <<>>] :
   r \in BOOLEAN, t \in PageTexts, f \in Filenames}

\* The number of pages of the documents whose language is detected.
MaxSampledPages == 4

Called_detect_language ==
  LET \* Numbers of characters of a page, around the two thresholds.
      PageLengths == {0, 50, 100, 101, 900, 1001}

      LanguagePdfs ==
        [readable : BOOLEAN,
         pages : UNION {[1..n -> PageLengths] : n \in 0..MaxSampledPages}]
  IN
  {[fn |-> "detect_language", pc |-> "called",
    in |-> [pdf |-> pdf, pages_to_check |-> n, detected |-> d],
    result |-> <<>>] :
   pdf \in LanguagePdfs, n \in {1, pages_to_check_default},
   d \in {"en", "fr", "LangDetectException"}}

\* The number of rows of the spreadsheet.
MaxRows == 2

Called_load_project_country_mapping ==
  LET Cell(text) == [nan |-> FALSE, text |-> text]

      EmptyCell == [nan |-> TRUE, text |-> <<>>]

      \* Cells of the column of identifiers: empty, "P123456", 123456,
      \* " P-123456 ", "P1234567", "  ", 12345, "P654321".
      IdCells ==
        {EmptyCell,
         Cell(<<"P", "1", "2", "3", "4", "5", "6">>),
         Cell(<<"1", "2", "3", "4", "5", "6">>),
         Cell(<<" ", "P", "-", "1", "2", "3", "4", "5", "6", " ">>),
         Cell(<<"P", "1", "2", "3", "4", "5", "6", "7">>),
         Cell(<<" ", " ">>),
         Cell(<<"1", "2", "3", "4", "5">>),
         Cell(<<"P", "6", "5", "4", "3", "2", "1">>)}

      \* Cells of the column of countries: empty, "KE", " PE ", " ".
      CountryCells ==
        {EmptyCell, Cell(<<"K", "E">>), Cell(<<" ", "P", "E", " ">>),
         Cell(<<" ">>)}
  IN
  {[fn |-> "load_project_country_mapping", pc |-> "called",
    in |-> [rows |-> rows], result |-> <<>>] :
   rows \in UNION {[1..n -> [project_id : IdCells, country : CountryCells]] :
                    n \in 0..MaxRows}}

\* The calls of a renaming stage: the stage, the names of the directory,
\* the file it renames and the parts of the name it asks for.
Called_rename_stage ==
  LET \* "P654321", "P654321_01", "P654321_EN", "P654321_EN_01",
      \* "P654321_Kenya", "P654321_Kenya_01", "P654321_Kenya_EN",
      \* "P654321_Kenya_EN_01".
      StageNames ==
        {<<".", "P654321">>, <<".", "P654321", "01">>,
         <<".", "P654321", "EN">>, <<".", "P654321", "EN", "01">>,
         <<".", "P654321", "Kenya">>, <<".", "P654321", "Kenya", "01">>,
         <<".", "P654321", "Kenya", "EN">>,
         <<".", "P654321", "Kenya", "EN", "01">>}

      \* The file a stage renames.  The base rename gets the PDF under the
      \* name of the document; the final rename gets it under the name the
      \* base rename chose; the reconciliation pass gets a PDF of the
      \* output tree.
      StageFiles(stage) ==
        IF stage = "base" THEN {<<".", "doc">>, <<".", "P654321">>}
        ELSE IF stage = "final"
          THEN {<<".", "P654321">>, <<".", "P654321", "01">>}
        ELSE {<<".", "P654321">>, <<".", "P654321", "EN">>,
              <<".", "P654321", "EN", "01">>}

      \* The country of the name: none in the base name, that of the
      \* mapping in the reconciliation pass.
      StageCountries(stage) ==
        IF stage = "base" THEN {<<>>}
        ELSE IF stage = "final" THEN {<<>>, <<"Kenya">>}
        ELSE {<<"Kenya">>}
  IN
  UNION {{[fn |-> "rename_stage", pc |-> "called",
           in |-> [stage |-> st, ex |-> ex \cup {f}, pdf_path |-> f,
                   project_id |-> "P654321", country |-> c,
                   language_suffix |-> "EN"],
           result |-> <<>>] :
          ex \in SUBSET StageNames, f \in StageFiles(st),
          c \in StageCountries(st)} :
         st \in {"base", "final", "reconcile"}}

\* The name a stage asks for and the one its collision loop settles on.
RenameStage(in) ==
  IF in.stage = "base"
    THEN [do |-> "rename",
          desired |-> <<in.pdf_path[1], in.project_id>>,
          path |-> BasePidPath(in.ex, in.pdf_path[1], in.project_id)]
  ELSE IF in.stage = "final"
    THEN LET pid_path == FinalName(in.pdf_path[1], in.project_id,
                                   in.country, in.language_suffix)
         IN  [do |-> "rename", desired |-> pid_path,
              path |-> FinalPidPath(in.ex, pid_path, in.pdf_path)]
  ELSE [do |-> CountryRename(in.ex, in.pdf_path).do,
        desired |-> <<in.pdf_path[1], in.project_id>>
                      \o CountryOf(in.project_id)
                      \o Tail(Tail(in.pdf_path)),
        path |-> CountryRename(in.ex, in.pdf_path).path]

\* A call of one of the functions is under way; no run of a script.
\* The unit of memory of the model is half a GB: 1024**3 bytes are GB units.
GB == 2

\* The largest total memory of a call, in units.
MaxMemory == 36

get_optimal_batch_size_UpTo(total) ==
  IF total <= 4 * GB THEN 10
  ELSE IF total <= 8 * GB THEN 20
  ELSE IF total <= 16 * GB THEN 50
  ELSE 100

\* get_optimal_batch_size, from the total memory psutil reports.  The
\* module imports psutil when it is loaded, so the import in the function
\* cannot raise ImportError and the default of 20 is never returned.
get_optimal_batch_size(total) ==
  IF total < 4 * GB THEN 10
  ELSE IF total < 8 * GB THEN 20
  ELSE IF total < 16 * GB THEN 50
  ELSE 100

Called_get_optimal_batch_size ==
  {[fn |-> "get_optimal_batch_size", pc |-> "called", in |-> [total |-> m],
    result |-> <<>>] : m \in 0..MaxMemory}

InitCalls ==
  /\ \/ call \in Called_extract_project_id
     \/ call \in Called_extract_project_id_from_filename
     \/ call \in Called_project_id
     \/ call \in Called_detect_language
     \/ call \in Called_load_project_country_mapping
     \/ call \in Called_rename_stage
     \/ call \in Called_get_optimal_batch_size
  /\ fs = EmptyTree
  /\ uq = UqIdle
  /\ inputs = <<>>
  /\ country_mapping = BothCountries
  /\ spreadsheet = [reads |-> "ok", mapping |-> BothCountries]
  /\ batches = <<>>
  /\ variant = "word_to_pdf"
  /\ cpu_count = 0
  /\ platform = "Windows"
  /\ input_valid = TRUE
  /\ output_dir = "separate"
  /\ entry = "main"
  /\ exit_status = <<>>
  /\ dirs = {"."}
  /\ temp = {}
  /\ rc = RcIdle
  /\ mpc = "done"
  /\ batch_start = 0
  /\ successful = 0
  /\ failed = 0
  /\ reported = <<>>
  /\ task = <<>>
  /\ doneq = <<>>
  /\ copy_next = 1
  /\ found = <<>>
  /\ wrote_over = {}
  /\ prekills = <<>>

CallUnchanged ==
  UNCHANGED <<inputs, country_mapping, variant, cpu_count, fs, mpc,
              batch_start, successful, failed, reported, task, doneq,
              copy_next, found, wrote_over, prekills, uq, platform, input_valid, output_dir,
              entry, exit_status, dirs, temp, rc, spreadsheet, batches>>

\* The call returns r.
Returns(r) == call' = [call EXCEPT !.pc = "returned", !.result = r]

Call_extract_project_id ==
  /\ call.fn = "extract_project_id" /\ call.pc = "called"
  /\ Returns(extract_project_id_text(call.in.module, call.in.pdf,
                                      call.in.max_pages))
  /\ CallUnchanged

Call_extract_project_id_from_filename ==
  /\ call.fn = "extract_project_id_from_filename" /\ call.pc = "called"
  /\ Returns(extract_project_id_from_filename_text(call.in.filename))
  /\ CallUnchanged

Call_project_id ==
  /\ call.fn = "project_id" /\ call.pc = "called"
  /\ Returns(project_id_text(call.in.pdf, call.in.filename))
  /\ CallUnchanged

Call_detect_language ==
  /\ call.fn = "detect_language" /\ call.pc = "called"
  /\ Returns(detect_language_text(call.in.pdf, call.in.pages_to_check,
                                   call.in.detected))
  /\ CallUnchanged

Call_load_project_country_mapping ==
  /\ call.fn = "load_project_country_mapping" /\ call.pc = "called"
  /\ Returns(load_project_country_mapping_rows(call.in.rows))
  /\ CallUnchanged

Call_rename_stage ==
  /\ call.fn = "rename_stage" /\ call.pc = "called"
  /\ Returns(RenameStage(call.in))
  /\ CallUnchanged

Call_get_optimal_batch_size ==
  /\ call.fn = "get_optimal_batch_size" /\ call.pc = "called"
  /\ Returns(get_optimal_batch_size(call.in.total))
  /\ CallUnchanged

NextCalls ==
  \/ Call_extract_project_id
  \/ Call_extract_project_id_from_filename
  \/ Call_project_id
  \/ Call_detect_language
  \/ Call_load_project_country_mapping
  \/ Call_rename_stage
  \/ Call_get_optimal_batch_size

SpecCalls == InitCalls /\ [][NextCalls]_vars

(***************************************************************************)
(* PID_RENAME.py.  A folder is a function from the names of its files to   *)
(* their contents.  A name is [stem, n, ext]: stem.ext when n is 0 and     *)
(* stem_n.ext otherwise.  A content is [src, pid, conv]: the name the file *)
(* had when the script started, the first P and six digits of its first    *)
(* ten pages ("" when there is none, or the file cannot be read), and, for *)
(* a Word document, whether docx2pdf converts it ("ok") or raises.         *)
(***************************************************************************)
\* The largest number of files of the folder.
MaxFolder == 3

\* The number of runs of the script over the folder.
Runs == 2

\* convert_word_to_pdf: the folder after the call and the value returned,
\* <<pdf_path>> or <<>> for None.
\* docx2pdf writes pdf_path whether or not a file of that name exists.
convert_word_to_pdf(folder, word_path) ==
  LET pdf_path == [word_path EXCEPT !.ext = "pdf"]
  IN  IF folder[word_path].conv = "ok"
        THEN [folder |-> [m \in DOMAIN folder \cup {pdf_path} |->
                            IF m = pdf_path THEN folder[word_path]
                            ELSE folder[m]],
              ret |-> <<pdf_path>>]
        ELSE [folder |-> folder, ret |-> <<>>]

\* process_and_rename_document: the folder after the call and the value
\* returned.  raises: Path.rename raises, which the except clause catches.
process_and_rename_document(folder, doc_path, raises) ==
  LET is_word == doc_path.ext \in {"doc", "docx"}
      conv == IF is_word THEN convert_word_to_pdf(folder, doc_path)
              ELSE [folder |-> folder, ret |-> <<>>]
      converted_pdf == conv.ret[1]
      pdf_path == IF is_word THEN converted_pdf ELSE doc_path
      \* extract_project_id(pdf_path)
      project_id == conv.folder[pdf_path].pid
      \* project_id.pdf, then project_id_counter.pdf with counter from 1,
      \* the first that does not exist.
      Candidate(counter) == [stem |-> project_id, n |-> counter, ext |-> "pdf"]
      new_path ==
        Candidate(CHOOSE c \in 0..Cardinality(DOMAIN conv.folder) :
                    /\ Candidate(c) \notin DOMAIN conv.folder
                    /\ \A d \in 0..(c - 1) : Candidate(d) \in DOMAIN conv.folder)
      PathUnlink(f, a) == [m \in DOMAIN f \ {a} |-> f[m]]
      PathRename(f, a, b) ==
        [m \in (DOMAIN f \ {a}) \cup {b} |-> IF m = b THEN f[a] ELSE f[m]]
  IN  IF is_word /\ conv.ret = <<>>
        THEN [folder |-> folder, ret |-> FALSE]
      ELSE IF project_id = "" \/ raises
        THEN [folder |-> IF is_word THEN PathUnlink(conv.folder, converted_pdf)
                         ELSE conv.folder,
              ret |-> FALSE]
      ELSE IF is_word
        THEN [folder |-> PathUnlink(PathRename(conv.folder, converted_pdf, new_path),
                                doc_path),
              ret |-> TRUE]
      ELSE [folder |-> PathRename(conv.folder, doc_path, new_path), ret |-> TRUE]

\* The calls of rename_documents_with_project_ids: the folders of at most
\* MaxFolder files named x or P123456, with or without the identifier
\* P123456 in their text.
Called_rename_documents_with_project_ids ==
  LET Names == {[stem |-> st, n |-> 0, ext |-> e] :
                  st \in {"x", "P123456"}, e \in {"pdf", "doc", "docx"}}
      Choices(S) ==
        {ch \in [S -> {"", "P123456"} \X {"ok", "fail"}] :
           \A m \in S : m.ext = "pdf" => ch[m][2] = "ok"}
      Folder(S, ch) ==
        [m \in S |-> [src |-> m, pid |-> ch[m][1], conv |-> ch[m][2]]]
      Frame(f) ==
        [fn |-> "rename_documents_with_project_ids", pc |-> "glob",
         run |-> 1, folder |-> f, start |-> f, pattern |-> 1, todo |-> {},
         before |-> f, doc |-> [stem |-> "", n |-> 0, ext |-> ""],
         ret |-> FALSE, successful_processes |-> 0, total_docs |-> 0]
  IN  UNION {{Frame(Folder(S, ch)) : ch \in Choices(S)} :
               S \in {T \in SUBSET Names : Cardinality(T) <= MaxFolder}}

InitPidRename ==
  /\ call \in Called_rename_documents_with_project_ids
  /\ fs = EmptyTree
  /\ uq = UqIdle
  /\ inputs = <<>>
  /\ country_mapping = BothCountries
  /\ spreadsheet = [reads |-> "ok", mapping |-> BothCountries]
  /\ batches = <<>>
  /\ variant = "word_to_pdf"
  /\ cpu_count = 0
  /\ platform = "Windows"
  /\ input_valid = TRUE
  /\ output_dir = "separate"
  /\ entry = "main"
  /\ exit_status = <<>>
  /\ dirs = {"."}
  /\ temp = {}
  /\ rc = RcIdle
  /\ mpc = "done"
  /\ batch_start = 0
  /\ successful = 0
  /\ failed = 0
  /\ reported = <<>>
  /\ task = <<>>
  /\ doneq = <<>>
  /\ copy_next = 1
  /\ found = <<>>
  /\ wrote_over = {}
  /\ prekills = <<>>

\* "for doc_file in folder.glob(pattern)" starts: the files of the pattern
\* that the folder holds now.
Glob ==
  /\ call.fn = "rename_documents_with_project_ids" /\ call.pc = "glob"
  /\ call' = [call EXCEPT
                !.pc = "loop",
                !.todo = {m \in DOMAIN call.folder :
                            m.ext = <<"pdf", "doc", "docx">>[call.pattern]}]
  /\ CallUnchanged

\* One iteration of the loop over the files of the pattern, which glob
\* yields in any order.
ProcessDocument ==
  /\ call.fn = "rename_documents_with_project_ids" /\ call.pc = "loop"
  /\ \E doc_file \in call.todo, raises \in BOOLEAN :
       LET r == process_and_rename_document(call.folder, doc_file, raises)
       IN  call' = [call EXCEPT
                      !.todo = call.todo \ {doc_file},
                      !.before = call.folder,
                      !.doc = doc_file,
                      !.ret = r.ret,
                      !.folder = r.folder,
                      !.total_docs = call.total_docs + 1,
                      !.successful_processes =
                         call.successful_processes + IF r.ret THEN 1 ELSE 0]
  /\ CallUnchanged

\* The loop over the files of one pattern is over: the next pattern, or
\* "return successful_processes, total_docs".
EndPattern ==
  /\ call.fn = "rename_documents_with_project_ids" /\ call.pc = "loop"
  /\ call.todo = {}
  /\ call' = [call EXCEPT
                !.pc = IF call.pattern = 3 THEN "returned" ELSE "glob",
                !.pattern = IF call.pattern = 3 THEN 3 ELSE call.pattern + 1]
  /\ CallUnchanged

\* main is run once more on the folder as the last run left it.
RunAgain ==
  /\ call.fn = "rename_documents_with_project_ids" /\ call.pc = "returned"
  /\ call.run < Runs
  /\ call' = [call EXCEPT
                !.pc = "glob", !.run = call.run + 1, !.pattern = 1,
                !.start = call.folder,
                !.successful_processes = 0, !.total_docs = 0]
  /\ CallUnchanged

NextPidRename ==
  \/ Glob
  \/ ProcessDocument
  \/ EndPattern
  \/ RunAgain

SpecPidRename == InitPidRename /\ [][NextPidRename]_vars

(***************************************************************************)
(* Properties.                                                             *)
(***************************************************************************)
\* r is f with the smallest counter n >= 1 whose name is free in ex.
SmallestFree(ex, f, r) ==
  \E n \in 1..(MaxOccupied + 2) :
     /\ r = Disambiguated(f, n)
     /\ r \notin ex
     /\ \A m \in 1..(n - 1) : Disambiguated(f, m) \in ex

\* C2: get_unique_filename(f) returns a path that does not exist when it is
\* called; once that path is created, a second call with the same f returns
\* another path.
C2_ResultIsFreeAndFresh ==
  /\ uq.pc = "called" => uq.r1 \notin existing
  /\ uq.pc = "again" => uq.r2 # uq.r1 /\ uq.r2 \notin existing

C2_Witness ==
  /\ uq.pc = "again"
  /\ uq.f = UqBase
  /\ uq.r1 = <<".", "a", "02">>
  /\ uq.r2 = <<".", "a", "03">>

\* C3 as amended: get_unique_filename returns the desired path when it is
\* free; otherwise the desired name with _N before the extension, N the
\* smallest counter >= 1 whose name is free, written in decimal and padded
\* with a zero to at least two digits (so three digits from 100 on).
C3_SmallestFreeCounter ==
  uq.pc = "called" =>
    IF uq.f \notin existing THEN uq.r1 = uq.f
    ELSE SmallestFree(existing, uq.f, uq.r1) /\ Len(uq.r1[Len(uq.r1)]) >= 2

C3_Witness ==
  /\ uq.pc = "called"
  /\ uq.f = UqBase
  /\ existing = Occupied(9)
  /\ uq.r1 = <<".", "a", "10">>

\* C3 as stated: the counter is always written with two digits.
C3_AlwaysTwoDigits ==
  uq.pc = "called" =>
    IF uq.f \notin existing THEN uq.r1 = uq.f
    ELSE SmallestFree(existing, uq.f, uq.r1) /\ Len(uq.r1[Len(uq.r1)]) = 2

\* The identifier of a converted document: the one in its text, else the
\* one in its file name.
OwnId(file) ==
  IF TextId(file) # "" THEN TextId(file) ELSE FirstPidSegment(file.stem, 1)

\* The paths of the output tree that hold the content of input c.
PathsOf(c) == {p \in existing : fs[p] = c}

\* C1: every write into the output tree (the converter's PDF, the copy of a
\* PDF, the renames) targets a path that does not exist at that moment, so
\* no file of the output tree is ever overwritten.
C1_NoWriteOntoExistingPath == wrote_over = {}

\* C4: when the run's inputs are two documents that both yield P111111,
\* there is no country mapping and both are classified NON, the output
\* directory holds exactly P111111_NON.pdf and P111111_NON_01.pdf after the
\* run, whatever the interleaving of the workers.
C4_TwoFilesSameId ==
  ( /\ mpc = "done"
    /\ variant = "word_to_pdf"
    /\ Len(inputs) = 2 /\ NWord = 2
    /\ \A i \in Tasks : /\ OwnId(word_files[i]) = "P111111"
                         /\ word_files[i].lang = "NON"
                         /\ word_files[i].conv = "ok"
    /\ DOMAIN country_mapping = {}
    /\ \A p \in existing : fs[p] # 0 )
  => existing = {<<".", "P111111", "NON">>, <<".", "P111111", "NON", "01">>}

\* C5: a successfully converted document with identifier I and language
\* tag L ends under I_C_L.pdf (C the country of I with '_' for spaces) or
\* I_L.pdf when I has no country, with a counter only on collision, and
\* under no other name: neither its original stem nor I.pdf remains.
C5_FinalNameOfConverted ==
  \A i \in Tasks :
    ( /\ variant = "word_to_pdf"
      /\ Finished(i)
      /\ task[i].success = "ok"
      /\ OwnId(word_files[i]) # "" )
    => LET file == word_files[i]
           name == FinalName(file.dir, OwnId(file), CountryOf(OwnId(file)),
                             file.lang)
       IN  \E p \in existing :
             /\ PathsOf(i) = {p}
             /\ \/ p = name
                \/ \E n \in 1..(NWord + Len(pdf_files)) :
                     /\ p = Disambiguated(name, n)
                     /\ name \in existing
                     /\ \A m \in 1..(n - 1) : Disambiguated(name, m) \in existing

\* C6: when the conversion of one document of a batch fails on all its
\* attempts, every other document that Word can convert is converted
\* successfully, whatever the interleaving of the workers and of the
\* taskkill that the failing worker runs before its retries.
C6_SiblingsUnaffected ==
  Cardinality({i \in Tasks : word_files[i].conv = "fail"}) = 1
  => \A i \in Tasks :
       Finished(i) /\ word_files[i].conv = "ok" => task[i].success = "ok"

\* C7: the reported totals are the numbers of tasks that returned success
\* and failure, and they add up to the number of convertible documents.
C7_ReportedTotals ==
  reported # <<>> =>
    /\ reported[1] = Cardinality({i \in Tasks : task[i].success = "ok"})
    /\ reported[2] = Cardinality({i \in Tasks : task[i].success = "fail"})
    /\ reported[1] + reported[2] = NWord

\* How often the event e occurs in the first k events of a task.
CountUpTo(ev, e, k) == Cardinality({n \in 1..k : ev[n] = e})

Count(ev, e) == CountUpTo(ev, e, Len(ev))

C9_RetrySequence ==
  \A i \in Tasks :
    LET ev == task[i].ev
        At(k) == IF k >= 1 /\ k <= Len(ev) THEN ev[k] ELSE "none"
    IN
    \A k \in 1..Len(ev) :
      /\ ev[k] = "attempt" /\ k > 1 =>
           /\ At(k - 4) = "fail"
           /\ At(k - 3) = "sleep3"
           /\ At(k - 2) = "taskkill"
           /\ At(k - 1) = "sleep2"
      /\ ev[k] = "taskkill" =>
           /\ At(k - 2) = "fail"
           /\ At(k - 1) = "sleep3"
           /\ CountUpTo(ev, "fail", k) <= retries
           /\ CountUpTo(ev, "ok", k) = 0
      /\ ev[k] = "fail" /\ CountUpTo(ev, "fail", k) <= retries =>
           /\ At(k + 1) \in {"sleep3", "none"}
           /\ At(k + 2) \in {"taskkill", "none"}
           /\ At(k + 3) \in {"sleep2", "none"}
           /\ At(k + 4) \in {"attempt", "none"}
           /\ ~Finished(i) \/ At(k + 4) = "attempt"
      /\ ev[k] = "fail" /\ CountUpTo(ev, "fail", k) = retries + 1 => k = Len(ev)
      /\ ev[k] = "ok" => k = Len(ev)

C9_Witness ==
  \E i \in Tasks :
    /\ task[i].ev = <<"attempt", "fail", "sleep3", "taskkill", "sleep2",
                      "attempt", "fail", "sleep3", "taskkill", "sleep2",
                      "attempt", "fail">>
    /\ task[i].pc = "done"

\* C10: no task of a batch starts before every task of the batches before
\* it has finished; the pre-batch taskkill runs once before each batch
\* starts, and never while a task is running.
C10_BatchesInSequence ==
  /\ [](\A i, j \in Tasks :
          BatchNumber(i) < BatchNumber(j) /\ task[j].pc # "unsubmitted"
            => Finished(i) /\ task[i].pc = "collected")
  /\ [](\A j \in Tasks :
          task[j].pc # "unsubmitted" =>
            /\ Len(prekills) >= BatchNumber(j)
            /\ task[j].pc # "collected" => Len(prekills) = BatchNumber(j)
            /\ \A n \in 1..Len(prekills) : prekills[n] = n)
  /\ [][prekills' # prekills =>
          /\ \A i \in Tasks : ~Running(i) /\ task[i].pc # "queued"
          /\ \A i \in Tasks : ~Running(i)' /\ task'[i].pc # "queued"]_vars

C10_Witness ==
  /\ prekills = <<1, 2>>
  /\ \E j \in Tasks : BatchNumber(j) = 2 /\ task[j].pc = "converting"
  /\ \A i \in Tasks : BatchNumber(i) = 1 => task[i].pc = "collected"

\* C11: at every moment the number of conversion tasks that execute is at
\* most the worker cap, and the cap of every pool that runs is between 2
\* and 4, whatever the CPU count.
C11_WorkerCap ==
  /\ NumRunning <= max_workers
  /\ mpc \in {"submit", "collect"} => max_workers >= 2 /\ max_workers <= 4

\* C12: the second of two successive reconciliation passes over the same
\* output tree with the same mapping returns 0 and leaves the tree as the
\* first pass left it.
C12_SecondPassUpdatesNothing ==
  /\ Len(rc.updated_files) = 2 =>
       rc.updated_files[2] = 0 /\ rc.trees[2] = rc.trees[1]
  /\ Len(rc.updated_files) = 1 /\ mpc = "reconcile_loop" =>
       rc.updated_count = 0 /\ fs = rc.trees[1]

C12_Witness ==
  /\ Len(rc.updated_files) = 2
  /\ rc.updated_files[1] = 3
  /\ rc.updated_files[2] = 0
  /\ <<"sub", "P654321", "Kenya", "EN">> \in existing

\* The name old with the country of its identifier inserted right after
\* the identifier, every other segment kept in place.
WithCountryInserted(old) ==
  <<old[1], old[2]>> \o CountryOf(old[2]) \o Tail(Tail(old))

\* C13: every rename of the reconciliation pass turns a name that starts
\* with the identifier into the same segments in the same order with the
\* country inserted after the identifier, plus a counter at the end on
\* collision; no segment is removed or reordered.  Names that do not start
\* with the identifier or already hold the country are not renamed.
C13_OnlyCountryInserted ==
  \A r \in rc.renamed :
    LET old == r[1]
        new == r[2]
    IN  /\ old[2] \in Pids
        /\ old[2] \in DOMAIN country_mapping
        /\ \A k \in 2..(Len(old) - Len(CountryOf(old[2])) + 1) :
             SubSeq(old, k, k + Len(CountryOf(old[2])) - 1) # CountryOf(old[2])
        /\ \/ new = WithCountryInserted(old)
           \/ \E n \in 1..(Cardinality(existing) + 1) :
                new = Disambiguated(WithCountryInserted(old), n)

\* The desired path p, or p with a counter.
SameStem(q, p) ==
  q = p \/ \E n \in 1..(Cardinality(existing) + 1) : q = Disambiguated(p, n)

\* C14: every document that was converted successfully and has no
\* identifier, neither in its text nor in its file name, has a PDF under
\* its original stem (with a counter only on collision) in the output once
\* its task is over; the same holds for every copied PDF without identifier.
C14_NoIdentifierKeepsStem ==
  variant = "word_to_pdf" =>
    /\ \A i \in Tasks :
         Finished(i) /\ task[i].success = "ok" /\ OwnId(word_files[i]) = ""
           => \E q \in PathsOf(i) :
                SameStem(q, <<word_files[i].dir>> \o word_files[i].stem)
    /\ \A k \in 1..Len(pdf_files) :
         k < copy_next /\ OwnId(pdf_files[k]) = ""
           => \E q \in PathsOf(NWord + k) :
                SameStem(q, <<pdf_files[k].dir>> \o pdf_files[k].stem)

\* The task is over and its last os.rename raised: the file was to go from
\* pdf_path to pid_path and did not.
RenameRejected(i) ==
  /\ Finished(i)
  /\ task[i].pid_path # NoPath
  /\ task[i].pdf_path # task[i].pid_path

\* C15: when the base-identifier rename or the final rename of a task
\* fails, the file is still on disk under the name it had before that
\* rename, the task is reported as successful and its result carries the
\* identifier that was found.
C15_RenameFailureKeepsFileAndId ==
  \A i \in Tasks :
    RenameRejected(i) =>
      /\ task[i].pdf_path \in existing
      /\ task[i].success = "ok"
      /\ task[i].project_id # ""
      /\ task[i].result_pid = task[i].project_id

\* C16: a task always ends with a result; every error inside it (the
\* platform, the conversion that failed on all attempts) is returned with
\* success = False and the error message; and a task whose conversion
\* failed on all attempts has extracted no identifier and renamed nothing,
\* so its file, if any, is only at the output path of the conversion.
C16_ErrorsAreReturned ==
  \A i \in Tasks :
    LET t == task[i] IN
    /\ Finished(i) => /\ t.success \in {"ok", "fail"}
                      /\ t.success = "fail" <=> t.error # ""
    /\ Count(t.ev, "fail") = retries + 1 =>
         /\ Finished(i)
         /\ t.success = "fail"
         /\ t.error = "MS Word conversion failed after 3 attempts"
    /\ platform # "Windows" /\ t.pc \notin {"unsubmitted", "queued"} =>
         /\ Finished(i)
         /\ t.success = "fail"
         /\ t.error = "Microsoft Word conversion requires Windows"
    /\ t.success = "fail" =>
         /\ t.project_id = "" /\ t.result_pid = ""
         /\ t.pdf_path = NoPath /\ t.pid_path = NoPath
         /\ PathsOf(i) \subseteq {t.output_path}

\* C17: on a platform other than Windows no conversion attempt is made; a
\* task fails with the capability error, and nothing is created in the
\* output tree, neither a file nor a directory; a run of the script stops
\* before it submits any file.
C17_NoWindowsNothingDone ==
  /\ [](platform # "Windows" =>
          \A i \in Tasks :
            /\ Count(task[i].ev, "attempt") = 0
            /\ Finished(i) =>
                 /\ task[i].success = "fail"
                 /\ task[i].error = "Microsoft Word conversion requires Windows"
            /\ entry # "process_batch" => task[i].pc = "unsubmitted")
  /\ [][platform # "Windows" => fs' = fs /\ dirs' = dirs]_vars

\* C18: the exit status is not 0 exactly when the platform is not Windows
\* or the input directory is invalid, however the script was started.
C18_ExitStatus ==
  exit_status # <<>> =>
    (exit_status # <<0>> <=> (platform # "Windows" \/ ~input_valid))

\* C19: for an input in OneDrive the temporary copy is made only after the
\* export from the original was tried in the same attempt, and the
\* temporary copy does not exist any more once the attempt that made it is
\* over, whether the conversion from the copy succeeded or failed.
C19_TempCopyRemoved ==
  \A i \in Tasks :
    LET ev == task[i].ev IN
    /\ \A k \in 1..Len(ev) :
         ev[k] = "tempcopy" =>
           k > 1 /\ ev[k - 1] = "attempt" /\ InOneDrive(word_files[i])
    /\ task[i].pc \notin {"fallback", "fallback_closing"} =>
         TempFile(word_files[i]) \notin temp

\* C20: whatever the interleaving of the workers, no file is overwritten,
\* no rename is rejected, no converted document with an identifier is left
\* under a name without it, and there are at least as many output files as
\* successful tasks.
C20_RaceIsHarmless ==
  variant = "word_to_pdf" =>
    /\ wrote_over = {}
    /\ \A i \in Tasks : ~RenameRejected(i)
    /\ \A i \in Tasks :
         Finished(i) /\ task[i].success = "ok" /\ OwnId(word_files[i]) # ""
           => \A q \in PathsOf(i) : q[2] = OwnId(word_files[i])
    /\ Cardinality({q \in existing : fs[q] \in Tasks})
         >= Cardinality({i \in Tasks : Finished(i) /\ task[i].success = "ok"})

\* The spreadsheet that the user named gave no mapping: it is missing, of
\* an unsupported format, malformed, or a column is not found in it.
BadSpreadsheet ==
  spreadsheet.reads \in {"not_found", "unsupported", "malformed",
                         "bad_index", "bad_column"}

\* The files that this run wrote.
Produced == {p \in existing : fs[p] # 0}

\* C27: a missing, unsupported, malformed or wrongly indexed spreadsheet
\* gives the empty mapping and does not abort the run; the run names no
\* file that it produces with a country of the spreadsheet and the
\* reconciliation pass renames nothing.
C27_BadSpreadsheetEmptyMapping ==
  BadSpreadsheet /\ platform = "Windows" /\ input_valid /\ entry = "main" =>
    /\ country_mapping = NoMapping
    /\ exit_status \in {<<>>, <<0>>}
    /\ mpc \notin {"reconcile", "reconcile_loop", "hung"}
    /\ rc = RcIdle
    /\ \A p \in Produced : \A id \in DOMAIN spreadsheet.mapping :
         ~ContainsCountry(Tail(p), spreadsheet.mapping[id])

C27_Witness ==
  /\ spreadsheet.reads = "unsupported"
  /\ spreadsheet.mapping = Kenya
  /\ exit_status = <<0>>
  /\ <<".", "P654321", "EN">> \in Produced
  /\ <<".", "P654321", "NON">> \in Produced

\* The batch loop of the run is over.
AfterBatchLoop ==
  \/ mpc \in {"report", "copy", "reconcile", "reconcile_loop", "hung"}
  \/ mpc = "done" /\ entry = "main" /\ exit_status = <<0>>

C29_OutputMirrorsInput ==
  /\ \A p \in Produced : p[1] = Content(fs[p]).dir
  /\ \A i, j \in Tasks :
       /\ word_files[i].dir # word_files[j].dir
       /\ word_files[i].stem = word_files[j].stem
       /\ Finished(i) /\ task[i].success = "ok"
       /\ Finished(j) /\ task[j].success = "ok"
       => PathsOf(i) # {} /\ PathsOf(j) # {}

\* The identifiers that a readable text of the run holds.
ReadableIds ==
  {TextId(Content(c)) : c \in 0..(NWord + Len(pdf_files))} \ {""}

\* C23: a PDF that cannot be read or has no text layer gives no identifier
\* and no error: the task whose conversion succeeded goes on with the file
\* name as for a text without identifier and returns success, and so do
\* the other tasks; an unreadable PDF to copy is copied all the same.
C23_ExtractionFailureIsNotFatal ==
  /\ \A i \in Tasks :
       /\ Finished(i) /\ Count(task[i].ev, "ok") = 1 =>
            task[i].success = "ok" /\ task[i].error = ""
       /\ task[i].project_id # "" =>
            \/ task[i].project_id \in ReadableIds
            \/ task[i].project_id =
                 extract_project_id_from_filename(word_files[i])
  /\ \A k \in 1..Len(pdf_files) :
       k < copy_next /\ variant = "word_to_pdf" => PathsOf(NWord + k) # {}

C23_Witness ==
  /\ mpc = "done"
  /\ \E i, j \in Tasks :
       /\ word_files[i].pdf = "scanned" /\ word_files[i].cpid = "P111111"
       /\ task[i].pc = "collected" /\ task[i].success = "ok"
       /\ task[i].result_pid = ""
       /\ fs[<<".", "scan">>] = i
       /\ word_files[j].pdf = "unreadable"
       /\ task[j].pc = "collected" /\ task[j].success = "ok"
       /\ task[j].result_pid = "P654321"
  /\ \E k \in 1..Len(pdf_files) :
       pdf_files[k].pdf = "unreadable" /\ fs[<<".", "old">>] = NWord + k

\* A project identifier: P followed by exactly six digits.
IsProjectId(r) ==
  Len(r) = 7 /\ r[1] = "P" /\ \A j \in 2..7 : r[j] \in Digits

\* Page p of the pages has P followed by six characters that are digits or
\* the letter O, starting at position k.
PidAt(pages, p, k) ==
  /\ k + 6 <= Len(pages[p])
  /\ pages[p][k] = "P"
  /\ \A j \in 1..6 : pages[p][k + j] \in Digits \cup {"O"}

\* (p, k) is the first such place within the first n pages.
FirstPidAt(pages, n, p, k) ==
  /\ p \in 1..n /\ k \in 1..Len(pages[p]) /\ PidAt(pages, p, k)
  /\ \A q \in 1..n : \A l \in 1..Len(pages[q]) :
       PidAt(pages, q, l) => q > p \/ (q = p /\ l >= k)

\* C21: extract_project_id returns the first P followed by six characters
\* that are digits or O of the earliest of the first max_pages pages that
\* has one, with every O replaced by 0, so P followed by six digits
\* (PO12345 gives P012345); None when those pages have none; it never
\* looks at a later page.
C21_FirstIdentifierOfFirstPages ==
  call.fn = "extract_project_id" /\ call.pc = "returned" /\ call.in.pdf.readable
    =>
    LET pages == call.in.pdf.pages
        n == Min(Len(pages), call.in.max_pages)
        r == call.result
    IN  /\ r # <<>> => IsProjectId(r)
        /\ r = <<>> <=>
             ~\E p \in 1..n : \E k \in 1..Len(pages[p]) : PidAt(pages, p, k)
        /\ \A p \in 1..n : \A k \in 1..Len(pages[p]) :
             FirstPidAt(pages, n, p, k) =>
               /\ r[1] = "P"
               /\ \A j \in 1..6 :
                    r[j + 1] = IF pages[p][k + j] = "O" THEN "0"
                               ELSE pages[p][k + j]

\* P followed by six digits and then '-' or '_' starts at position k.
NamePidAt(filename, k) ==
  /\ k + 7 <= Len(filename)
  /\ filename[k] = "P"
  /\ \A j \in 1..6 : filename[k + j] \in Digits
  /\ filename[k + 7] \in {"-", "_"}

\* C22: the file name is used only when the text of the PDF gives no
\* identifier; the scan of the name returns P and six digits only where
\* '-' or '_' follows them, without that separator
\* (P123456-report.docx gives P123456), else None.
C22_ContentBeforeFilename ==
  /\ call.fn = "extract_project_id_from_filename" /\ call.pc = "returned" =>
       LET filename == call.in.filename
           r == call.result
       IN  /\ r = <<>> <=> ~\E k \in 1..Len(filename) : NamePidAt(filename, k)
           /\ r # <<>> =>
                /\ IsProjectId(r)
                /\ \E k \in 1..Len(filename) :
                     /\ NamePidAt(filename, k)
                     /\ \A l \in 1..(k - 1) : ~NamePidAt(filename, l)
                     /\ r = SubSeq(filename, k, k + 6)
  /\ call.fn = "project_id" /\ call.pc = "returned" =>
       LET pages == call.in.pdf.pages
           in_text == call.in.pdf.readable
                        /\ \E k \in 1..Len(pages[1]) : PidAt(pages, 1, k)
       IN  /\ in_text =>
                \E k \in 1..Len(pages[1]) :
                  /\ FirstPidAt(pages, 1, 1, k)
                  /\ \A j \in 1..6 :
                       call.result[j + 1] =
                         IF pages[1][k + j] = "O" THEN "0" ELSE pages[1][k + j]
           /\ ~in_text =>
                \/ call.result = <<>>
                \/ \E k \in 1..Len(call.in.filename) :
                     /\ NamePidAt(call.in.filename, k)
                     /\ call.result = SubSeq(call.in.filename, k, k + 6)

C22_Witness ==
  /\ call.fn = "project_id" /\ call.pc = "returned"
  /\ call.in.pdf.readable
  /\ call.in.pdf.pages = <<<<"P", "O", "1", "2", "3", "4", "5">>>>
  /\ extract_project_id_from_filename_text(call.in.filename)
       = <<"P", "1", "2", "3", "4", "5", "6">>
  /\ call.result = <<"P", "0", "1", "2", "3", "4", "5">>

\* The characters of the first n pages together.
RECURSIVE CharsOf(_, _)
CharsOf(pages, n) == IF n = 0 THEN 0 ELSE CharsOf(pages, n - 1) + pages[n]

\* The sampling of detect_language: at most pages_to_check pages, no page
\* after more than 1000 characters were gathered, and no page left out
\* before that.
SampledPages(pdf, pages_to_check, read) ==
  /\ read <= pages_to_check /\ read <= Len(pdf.pages)
  /\ \A p \in 2..read : CharsOf(pdf.pages, p - 1) <= 1000
  /\ read < Min(Len(pdf.pages), pages_to_check)
       => CharsOf(pdf.pages, read) > 1000

\* C24 as stated: NON with fewer than 100 characters, on a failed detection
\* and on an unreadable PDF; with 100 characters or more EN exactly when
\* the detected language is English; at most 3 pages are sampled and the
\* sampling stops once about 1000 characters are gathered.
C24_LanguageTagFrom100 ==
  call.fn = "detect_language" /\ call.pc = "returned" =>
    LET pdf == call.in.pdf
        r == call.result
        chars == CharsOf(pdf.pages, r.read)
    IN  /\ r.tag \in {"EN", "NON"}
        /\ ~pdf.readable => r.tag = "NON"
        /\ pdf.readable =>
             /\ SampledPages(pdf, call.in.pages_to_check, r.read)
             /\ chars < 100 \/ call.in.detected = "LangDetectException"
                  => r.tag = "NON"
             /\ chars >= 100 /\ call.in.detected # "LangDetectException"
                  => (r.tag = "EN" <=> call.in.detected = "en")

\* C24, amended: NON with 100 characters or fewer, on a failed detection
\* and on an unreadable PDF; with more than 100 characters EN exactly when
\* the detected language is English; the result is EN or NON; at most
\* pages_to_check (3) pages are sampled, and none after more than 1000
\* characters were gathered.
C24_LanguageTagAbove100 ==
  call.fn = "detect_language" /\ call.pc = "returned" =>
    LET pdf == call.in.pdf
        r == call.result
        chars == CharsOf(pdf.pages, r.read)
    IN  /\ r.tag \in {"EN", "NON"}
        /\ ~pdf.readable => r.tag = "NON"
        /\ pdf.readable =>
             /\ SampledPages(pdf, call.in.pages_to_check, r.read)
             /\ chars <= 100 \/ call.in.detected = "LangDetectException"
                  => r.tag = "NON"
             /\ chars > 100 /\ call.in.detected # "LangDetectException"
                  => (r.tag = "EN" <=> call.in.detected = "en")

\* English text of exactly 100 characters on two pages is tagged NON.
C24_Witness ==
  /\ call.fn = "detect_language" /\ call.pc = "returned"
  /\ call.in.pdf.readable
  /\ call.in.pdf.pages = <<50, 0, 50>>
  /\ call.in.pages_to_check = pages_to_check_default
  /\ call.in.detected = "en"
  /\ call.result = [tag |-> "NON", read |-> 3]

\* The cell has a value that is not blank.
Present(cell) == ~cell.nan /\ \E k \in 1..Len(cell.text) : cell.text[k] # " "

\* The key the claim gives an identifier cell: a bare number gets the P
\* prefix, and only P and digits are kept.
ClaimedKey(cell) ==
  LET kept == SelectSeq(cell.text, PorDigit)
  IN  IF kept # <<>> /\ \A k \in 1..Len(kept) : kept[k] \in Digits
        THEN <<"P">> \o kept ELSE kept

\* C26: load_project_country_mapping has no entry from a row whose
\* identifier cell or country cell is empty or missing; a bare number gets
\* the P prefix and characters other than P and digits are stripped before
\* the identifier is the key; every key is a project identifier, and every
\* row with both cells and a project identifier has its entry.
C26_RowsOfTheMapping ==
  call.fn = "load_project_country_mapping" /\ call.pc = "returned" =>
    LET rows == call.in.rows
        mapping == call.result
    IN  /\ \A k \in DOMAIN mapping :
             /\ IsProjectId(k)
             /\ \E i \in 1..Len(rows) :
                  /\ Present(rows[i].project_id) /\ Present(rows[i].country)
                  /\ ClaimedKey(rows[i].project_id) = k
                  /\ mapping[k] = Strip(rows[i].country.text)
        /\ \A i \in 1..Len(rows) :
             Present(rows[i].project_id) /\ Present(rows[i].country)
               /\ IsProjectId(ClaimedKey(rows[i].project_id))
               => ClaimedKey(rows[i].project_id) \in DOMAIN mapping

\* C30: the base rename, the final rename and the reconciliation rename
\* each choose, for the directory as it is and the name asked for, the name
\* get_unique_filename returns for that name in that directory.
C30_StagesChooseUniqueName ==
  call.fn = "rename_stage" /\ call.pc = "returned"
    /\ call.result.do # "skip"
    => /\ call.result.do = "rename"
       /\ call.result.path = get_unique_filename(call.in.ex,
                                                  call.result.desired)

\* The state of the file of task t in the state machine of a file; a task
\* that has returned is in the state in which it returned.
FileState(t) ==
  IF t.pc \in {"unsubmitted", "queued"} THEN "Discovered"
  ELSE IF t.pc \in {"attempt", "converting", "closing", "fallback",
                    "fallback_closing", "backoff", "kill", "wait"}
    THEN "Converting"
  ELSE IF t.pc = "extract" THEN "IdentifierExtraction"
  ELSE IF t.pc \in {"baseprobe", "baserename"} THEN "IdentifierFound"
  ELSE IF t.pc = "lang" THEN "LanguageDetection"
  ELSE IF t.pc = "finalprobe" THEN "CountryLookup"
  ELSE IF t.pc = "finalrename" THEN "FinalRename"
  ELSE IF t.success = "fail" THEN "ConversionFailed"
  ELSE IF t.project_id = "" THEN "NoIdentifier"
  ELSE IF t.language_suffix = "" THEN "IdentifierFound"
  ELSE "FinalRename"

\* The arrows of the state machine; Converted is the arrow from Converting
\* to IdentifierExtraction.
FileArrows ==
  {<<"Discovered", "Converting">>,
   <<"Converting", "ConversionFailed">>,
   <<"Converting", "IdentifierExtraction">>,
   <<"IdentifierExtraction", "NoIdentifier">>,
   <<"IdentifierExtraction", "IdentifierFound">>,
   <<"IdentifierFound", "LanguageDetection">>,
   <<"LanguageDetection", "CountryLookup">>,
   <<"CountryLookup", "FinalRename">>}

Returned(t) == t.pc \in {"done", "collected"}

\* C31: in word_to_pdf.py each file moves only along the arrows Discovered,
\* Converting, then ConversionFailed or IdentifierExtraction, then
\* NoIdentifier or IdentifierFound, LanguageDetection, CountryLookup,
\* FinalRename; a file whose task has returned is in one of the terminal
\* states ConversionFailed, NoIdentifier, FinalRename, and stays in it.
C31_FileStateMachine ==
  [][variant = "word_to_pdf" =>
       \A i \in Tasks :
         /\ FileState(task'[i]) # FileState(task[i])
              => <<FileState(task[i]), FileState(task'[i])>> \in FileArrows
         /\ Returned(task'[i])
              => FileState(task'[i]) \in {"ConversionFailed", "NoIdentifier",
                                          "FinalRename"}
         /\ Returned(task[i])
              => Returned(task'[i]) /\ FileState(task'[i]) = FileState(task[i])]_vars

\* C39: every key of the mapping that load_project_country_mapping returns
\* is P followed by exactly six digits.
C39_KeysAreProjectIds ==
  call.fn = "load_project_country_mapping" /\ call.pc = "returned" =>
    \A k \in DOMAIN call.result : IsProjectId(k)

\* C34: a call of convert_with_word that is over, or between two of its
\* attempts, holds no Word session, and has uninitialized the automation
\* runtime as often as it initialized it; at no point has it uninitialized
\* it more often than it initialized it.
C34_SessionsAndRuntimeBalanced ==
  \A i \in Tasks :
    /\ task[i].com_uninit <= task[i].com_init
    /\ task[i].pc \notin {"converting", "closing", "fallback",
                          "fallback_closing", "backoff", "kill", "wait"}
         => ~task[i].word
    /\ task[i].pc \notin {"attempt", "converting", "closing", "fallback",
                          "fallback_closing", "backoff", "kill", "wait"}
         => task[i].com_uninit = task[i].com_init

\* C32: the collision loop of apply_country_mapping_to_existing_files
\* always ends with a free name: the pass is never in a loop whose
\* candidate name is taken and is the same in every iteration.
C32_CollisionLoopEnds == mpc # "hung"

\* C33: every file submitted to the pool reaches a terminal state and the
\* run finishes, also when an attempt hangs: as long as the run is not over
\* some step of it can be taken.
C33_RunCanGoOn == mpc \notin {"done", "hung"} => ENABLED Next

\* The PDFs of the output tree that input c has produced: the files with
\* its content, but for the input itself where it is a PDF of an output
\* directory that is the input directory.
ProducedBy(c) ==
  {p \in DOMAIN fs : fs[p] = c}
    \ (IF output_dir = "input" /\ c > NWord
         THEN {<<pdf_files[c - NWord].dir>> \o pdf_files[c - NWord].stem}
         ELSE {})

\* C35: in word_to_pdf.py every input, Word document or PDF, has produced
\* at most one PDF of the output tree when the run is over, whether the
\* output directory is a directory of its own or the input directory.
C35_OnePdfPerInput ==
  variant = "word_to_pdf" /\ mpc = "done" =>
    \A c \in 1..(NWord + Len(pdf_files)) : Cardinality(ProducedBy(c)) <= 1

C37_WordLeavesPdfsAlone ==
  /\ call.fn = "rename_documents_with_project_ids"
  /\ call.doc.ext \in {"doc", "docx"}
  => LET Pdfs(f) == {m \in DOMAIN f : m.ext = "pdf"}
     IN  /\ \A m \in Pdfs(call.before) :
               m \in DOMAIN call.folder /\ call.folder[m] = call.before[m]
         /\ ~call.ret =>
               /\ call.doc \in DOMAIN call.folder
               /\ Pdfs(call.folder) = Pdfs(call.before)

\* C38: a second run of rename_documents_with_project_ids on the folder
\* that the first run left renames no file: the folder stays as the second
\* run found it.
C38_SecondRunRenamesNothing ==
  call.fn = "rename_documents_with_project_ids" /\ call.run = 2 =>
    /\ DOMAIN call.folder = DOMAIN call.start
    /\ call.successful_processes = 0

====
